---- MODULE Spec2Model ----
(***************************************************************************)
(* A model of the column kernels (ColumnOps, EquationOfState, ElementOps), *)
(* the IOP forcing kernels, the legacy call boundary (scream_init,         *)
(* scream_run, scream_finalize), the fatal-error path (runtime_check) and  *)
(* the process-group schedule of the atmosphere driver.                    *)
(*                                                                         *)
(* Real numbers are exact rationals <<n, d>> (d > 0, lowest terms), so an  *)
(* equality between two results is an equality of the values computed by   *)
(* the same sequence of operations, free of rounding.                      *)
(***************************************************************************)
EXTENDS Integers, Sequences, FiniteSets, TLC

(***************************************************************************)
(* Bounds of the model.                                                    *)
(***************************************************************************)
\* number of physical (midpoint) levels of a column
NUM_PHYSICAL_LEV == 3
\* largest pack width of a wide-vector (host) build; widths 1..MaxVectorSize
MaxVectorSize == 2
\* midpoint data and prior output contents are drawn from 0..MaxVal
MaxVal == 1

(***************************************************************************)
(* Exact rational arithmetic standing for Real.                            *)
(***************************************************************************)
Abs(n) == IF n < 0 THEN -n ELSE n

RECURSIVE Gcd(_, _)
Gcd(a, b) == IF b = 0 THEN a ELSE Gcd(b, a % b)

Norm(n, d) ==
  LET g == Gcd(Abs(n), Abs(d))
      s == IF d < 0 THEN -1 ELSE 1
  IN  <<(s * n) \div g, (s * d) \div g>>

Real(n) == <<n, 1>>
Zero == Real(0)
One == Real(1)
Two == Real(2)

\* the floating-point values that are not non-zero reals: NaN, the two
\* infinities and the negative zero (Zero is the positive one), and a value
\* for the reals that no rational of the model carries (pow of an argument
\* off its grid)
NaN == <<0, 0>>
PInf == <<1, 0>>
NInf == <<-1, 0>>
NZero == <<0, -2>>
Unrepresented == <<0, -1>>

IsInf(a) == a = PInf \/ a = NInf
IsZero(a) == a = Zero \/ a = NZero
Sign(a) == IF a[1] < 0 \/ a = NZero THEN -1 ELSE 1
SignedZero(s) == IF s < 0 THEN NZero ELSE Zero
SignedInf(s) == IF s < 0 THEN NInf ELSE PInf
\* the value without the sign of a zero
Unsigned(a) == IF a = NZero THEN Zero ELSE a
\* a == b of two values neither of which is a NaN
SameValue(a, b) == Unsigned(a) = Unsigned(b)

RNeg(a) ==
  IF a[1] # 0 THEN <<-a[1], a[2]>>
  ELSE IF a = Zero THEN NZero
  ELSE IF a = NZero THEN Zero
  ELSE a

\* sums over the least common denominator; a sum of two zeros is negative
\* when both are, an exact cancellation is the positive zero
RAdd(a, b) ==
  IF a[2] > 0 /\ b[2] > 0
    THEN LET g == Gcd(a[2], b[2])
         IN  Norm(a[1] * (b[2] \div g) + b[1] * (a[2] \div g), (a[2] \div g) * b[2])
  ELSE IF a = NaN \/ b = NaN THEN NaN
  ELSE IF a = Unrepresented \/ b = Unrepresented THEN Unrepresented
  ELSE IF IsInf(a) THEN IF IsInf(b) /\ a # b THEN NaN ELSE a
  ELSE IF IsInf(b) THEN b
  ELSE IF a = NZero /\ b = NZero THEN NZero
  ELSE IF a = NZero THEN b
  ELSE a
RSub(a, b) == RAdd(a, RNeg(b))
RMul(a, b) ==
  IF a[2] > 0 /\ b[2] > 0 /\ a[1] * b[1] # 0
    THEN Norm(a[1] * b[1], a[2] * b[2])
  ELSE IF a = NaN \/ b = NaN THEN NaN
  ELSE IF a = Unrepresented \/ b = Unrepresented THEN Unrepresented
  ELSE IF IsInf(a) \/ IsInf(b)
    THEN IF IsZero(a) \/ IsZero(b) THEN NaN ELSE SignedInf(Sign(a) * Sign(b))
  ELSE SignedZero(Sign(a) * Sign(b))
RDiv(a, b) ==
  IF a[2] > 0 /\ b[2] > 0 /\ a[1] * b[1] # 0
    THEN Norm(a[1] * b[2], a[2] * b[1])
  ELSE IF a = NaN \/ b = NaN THEN NaN
  ELSE IF a = Unrepresented \/ b = Unrepresented THEN Unrepresented
  ELSE IF IsInf(a) THEN IF IsInf(b) THEN NaN ELSE SignedInf(Sign(a) * Sign(b))
  ELSE IF IsInf(b) THEN SignedZero(Sign(a) * Sign(b))
  ELSE IF IsZero(b) THEN IF IsZero(a) THEN NaN ELSE SignedInf(Sign(a) * Sign(b))
  ELSE SignedZero(Sign(a) * Sign(b))

(***************************************************************************)
(* Column layout: a column of LENGTH entries is stored in packs of vs      *)
(* lanes (ColInfo<LENGTH>).  A view is a function pack -> lane -> Real.     *)
(***************************************************************************)
NUM_INTERFACE_LEV == NUM_PHYSICAL_LEV + 1

NumPacks(LENGTH, vs) == (LENGTH + vs - 1) \div vs
LastPack(LENGTH, vs) == NumPacks(LENGTH, vs) - 1
LastPackEnd(LENGTH, vs) == LENGTH - LastPack(LENGTH, vs) * vs - 1
VECTOR_END(vs) == vs - 1
NUM_LEV(vs) == NumPacks(NUM_PHYSICAL_LEV, vs)
NUM_LEV_P(vs) == NumPacks(NUM_INTERFACE_LEV, vs)

\* the view that stores the logical column col (0..LENGTH-1), padding lanes
\* of the last pack holding padVal
PackView(col, LENGTH, vs, padVal) ==
  [p \in 0..(NumPacks(LENGTH, vs) - 1) |->
     [v \in 0..(vs - 1) |->
        IF p * vs + v < LENGTH THEN col[p * vs + v] ELSE padVal]]

\* entry k of the column a view stores
Lvl(view, vs, k) == view[k \div vs][k % vs]

\* what an input provider returns for pack ilev: the view's pack, or, past
\* the end of the view, whatever the out-of-bounds read produces
Provide(view, ilev, oob) ==
  IF ilev \in DOMAIN view THEN view[ilev] ELSE oob

\* Vector::shift_right(1) and shift_left(1): lanes move by one, a zero enters
ShiftRight(pack, vs) ==
  [v \in 0..(vs - 1) |-> IF v = 0 THEN Zero ELSE pack[v - 1]]
ShiftLeft(pack, vs) ==
  [v \in 0..(vs - 1) |-> IF v = vs - 1 THEN Zero ELSE pack[v + 1]]

PAdd(a, b) == [v \in DOMAIN a |-> RAdd(a[v], b[v])]
PSub(a, b) == [v \in DOMAIN a |-> RSub(a[v], b[v])]
PMul(a, b) == [v \in DOMAIN a |-> RMul(a[v], b[v])]
PDiv(a, b) == [v \in DOMAIN a |-> RDiv(a[v], b[v])]
PScale(s, a) == [v \in DOMAIN a |-> RMul(s, a[v])]
PHalf(a) == [v \in DOMAIN a |-> RDiv(a[v], Two)]

(***************************************************************************)
(* combine<CM>(newVal, result, alpha, beta): the new value of result.      *)
(***************************************************************************)
CombineModes ==
  {"Replace", "Scale", "Update", "ScaleUpdate", "ScaleAdd", "Add", "ProdUpdate"}

combine(CM, newVal, result, alpha, beta) ==
  CASE CM = "Replace"     -> newVal
    [] CM = "Scale"       -> RMul(alpha, newVal)
    [] CM = "Update"      -> RAdd(RMul(result, beta), newVal)
    [] CM = "ScaleUpdate" -> RAdd(RMul(result, beta), RMul(alpha, newVal))
    [] CM = "ScaleAdd"    -> RAdd(result, RMul(alpha, newVal))
    [] CM = "Add"         -> RAdd(result, newVal)
    [] CM = "ProdUpdate"  -> RMul(result, newVal)

\* combine on a whole pack (Scalar arguments)
combinePack(CM, newVal, result, alpha, beta) ==
  [v \in DOMAIN result |-> combine(CM, newVal[v], result[v], alpha, beta)]

needsAlpha(CM) == CM \in {"Scale", "ScaleAdd", "ScaleUpdate"}
needsBeta(CM) == CM \in {"Update", "ScaleUpdate"}

(***************************************************************************)
(* ColumnOps::compute_midpoint_values: x_m = average of the two            *)
(* neighbouring interfaces, combined into the prior x_m.                   *)
(***************************************************************************)
compute_midpoint_values(gpu, vs, CM, x_i, x_m, alpha, beta) ==
  IF gpu
  THEN [ilev \in 0..(NUM_PHYSICAL_LEV - 1) |->
          combinePack(CM, PHalf(PAdd(x_i[ilev], x_i[ilev + 1])),
                      x_m[ilev], alpha, beta)]
  ELSE LET LAST_MID_PACK == LastPack(NUM_PHYSICAL_LEV, vs)
           LAST_MID_PACK_END == LastPackEnd(NUM_PHYSICAL_LEV, vs)
           LAST_INT_PACK == LastPack(NUM_INTERFACE_LEV, vs)
           LAST_INT_PACK_END == LastPackEnd(NUM_INTERFACE_LEV, vs)
           tmpOf(ilev) ==
             IF ilev < LAST_MID_PACK
             THEN [ShiftLeft(x_i[ilev], vs) EXCEPT
                     ![VECTOR_END(vs)] = x_i[ilev + 1][0]]
             ELSE [ShiftLeft(x_i[LAST_MID_PACK], vs) EXCEPT
                     ![LAST_MID_PACK_END] = x_i[LAST_INT_PACK][LAST_INT_PACK_END]]
       IN  [ilev \in 0..LAST_MID_PACK |->
              combinePack(CM, PHalf(PAdd(tmpOf(ilev), x_i[ilev])),
                          x_m[ilev], alpha, beta)]

(***************************************************************************)
(* compute_interface_values without the top/bottom fix-up step.            *)
(***************************************************************************)
compute_interface_values_no_fix(gpu, vs, CM, x_m, x_i, alpha, beta) ==
  LET tmpOf(ilev) ==
        IF ilev >= 1
        THEN [ShiftRight(x_m[ilev], vs) EXCEPT ![0] = x_m[ilev - 1][VECTOR_END(vs)]]
        ELSE ShiftRight(x_m[0], vs)
  IN  [ilev \in DOMAIN x_i |->
         IF gpu
         THEN IF ilev \in 1..(NUM_PHYSICAL_LEV - 1)
              THEN combinePack(CM, PHalf(PAdd(x_m[ilev], x_m[ilev - 1])),
                               x_i[ilev], alpha, beta)
              ELSE x_i[ilev]
         ELSE IF ilev < NUM_LEV(vs)
              THEN combinePack(CM, PHalf(PAdd(tmpOf(ilev), x_m[ilev])),
                               x_i[ilev], alpha, beta)
              ELSE x_i[ilev]]

(***************************************************************************)
(* ColumnOps::compute_interface_values (unweighted).                       *)
(***************************************************************************)
compute_interface_values(gpu, vs, CM, x_m, x_i, alpha, beta) ==
  IF gpu
  THEN LET loop == [ilev \in DOMAIN x_i |->
                      IF ilev \in 1..(NUM_PHYSICAL_LEV - 1)
                      THEN combinePack(CM, PHalf(PAdd(x_m[ilev], x_m[ilev - 1])),
                                       x_i[ilev], alpha, beta)
                      ELSE x_i[ilev]]
           \* Fix the top/bottom
           top == [loop EXCEPT ![0] =
                     combinePack(CM, x_m[0], loop[0], alpha, beta)]
       IN  [top EXCEPT ![NUM_INTERFACE_LEV - 1] =
              combinePack(CM, x_m[NUM_PHYSICAL_LEV - 1],
                          top[NUM_INTERFACE_LEV - 1], alpha, beta)]
  ELSE LET LAST_MID_PACK == LastPack(NUM_PHYSICAL_LEV, vs)
           LAST_MID_PACK_END == LastPackEnd(NUM_PHYSICAL_LEV, vs)
           LAST_INT_PACK == LastPack(NUM_INTERFACE_LEV, vs)
           LAST_INT_PACK_END == LastPackEnd(NUM_INTERFACE_LEV, vs)
           tmpOf(ilev) ==
             IF ilev >= 1
             THEN [ShiftRight(x_m[ilev], vs) EXCEPT
                     ![0] = x_m[ilev - 1][VECTOR_END(vs)]]
             ELSE ShiftRight(x_m[0], vs)
           \* packs 1..NUM_LEV-1, then the first pack
           loop == [ilev \in DOMAIN x_i |->
                      IF ilev < NUM_LEV(vs)
                      THEN combinePack(CM, PHalf(PAdd(tmpOf(ilev), x_m[ilev])),
                                       x_i[ilev], alpha, beta)
                      ELSE x_i[ilev]]
           \* Fix top/bottom
           top == [loop EXCEPT ![0][0] =
                     combine(CM, x_m[0][0], loop[0][0], alpha, beta)]
       IN  [top EXCEPT ![LAST_INT_PACK][LAST_INT_PACK_END] =
              combine(CM, x_m[LAST_MID_PACK][LAST_MID_PACK_END],
                      top[LAST_INT_PACK][LAST_INT_PACK_END], alpha, beta)]

(***************************************************************************)
(* ColumnOps::compute_interface_values (weighted by weights_m, weights_i). *)
(* On the scalar/GPU path the bottom fix-up reads x_m(NUM_INTERFACE_LEV-1),*)
(* one pack past the NUM_LEV packs of x_m: oob is what that read yields.   *)
(***************************************************************************)
compute_interface_values_weighted(gpu, vs, CM, weights_m, weights_i, x_m, x_i, alpha, beta, oob) ==
  IF gpu
  THEN LET loop == [ilev \in DOMAIN x_i |->
                      IF ilev \in 1..(NUM_PHYSICAL_LEV - 1)
                      THEN combinePack(CM,
                             PDiv(PAdd(PMul(x_m[ilev], weights_m[ilev]),
                                       PMul(x_m[ilev - 1], weights_m[ilev - 1])),
                                  PScale(Two, weights_i[ilev])),
                             x_i[ilev], alpha, beta)
                      ELSE x_i[ilev]]
           \* Fix the top/bottom
           top == [loop EXCEPT ![0] =
                     combinePack(CM, x_m[0], loop[0], alpha, beta)]
       IN  [top EXCEPT ![NUM_PHYSICAL_LEV - 1] =
              combinePack(CM, Provide(x_m, NUM_INTERFACE_LEV - 1, oob),
                          top[NUM_PHYSICAL_LEV - 1], alpha, beta)]
  ELSE LET LAST_MID_PACK == LastPack(NUM_PHYSICAL_LEV, vs)
           LAST_MID_PACK_END == LastPackEnd(NUM_PHYSICAL_LEV, vs)
           LAST_INT_PACK == LastPack(NUM_INTERFACE_LEV, vs)
           LAST_INT_PACK_END == LastPackEnd(NUM_INTERFACE_LEV, vs)
           xw(ilev) == PMul(x_m[ilev], weights_m[ilev])
           tmpOf(ilev) ==
             IF ilev >= 1
             THEN [ShiftRight(xw(ilev), vs) EXCEPT
                     ![0] = RMul(x_m[ilev - 1][VECTOR_END(vs)],
                                 weights_m[ilev - 1][VECTOR_END(vs)])]
             ELSE ShiftRight(xw(0), vs)
           loop == [ilev \in DOMAIN x_i |->
                      IF ilev < NUM_LEV(vs)
                      THEN combinePack(CM,
                             PDiv(PAdd(tmpOf(ilev), xw(ilev)),
                                  PScale(Two, weights_i[ilev])),
                             x_i[ilev], alpha, beta)
                      ELSE x_i[ilev]]
           \* Fix top/bottom
           top == [loop EXCEPT ![0][0] =
                     combine(CM, x_m[0][0], loop[0][0], alpha, beta)]
       IN  [top EXCEPT ![LAST_INT_PACK][LAST_INT_PACK_END] =
              combine(CM, x_m[LAST_MID_PACK][LAST_MID_PACK_END],
                      top[LAST_INT_PACK][LAST_INT_PACK_END], alpha, beta)]

(***************************************************************************)
(* ColumnOps::compute_interface_delta with boundary condition bcType.      *)
(***************************************************************************)
BCTypes == {"Zero", "Value", "DoNothing"}

compute_interface_delta(gpu, vs, CM, bcType, x_m, dx_i, bcVal, alpha, beta) ==
  LET LAST_PACK == LastPack(NUM_INTERFACE_LEV, vs)
      LAST_PACK_END == LastPackEnd(NUM_INTERFACE_LEV, vs)
      bc == IF bcType = "Zero" THEN Zero ELSE bcVal
      loop ==
        IF gpu
        THEN [ilev \in DOMAIN dx_i |->
                IF ilev \in 1..(NUM_PHYSICAL_LEV - 1)
                THEN combinePack(CM, PSub(x_m[ilev], x_m[ilev - 1]),
                                 dx_i[ilev], alpha, beta)
                ELSE dx_i[ilev]]
        ELSE LET tmpOf(ilev) ==
                   IF ilev >= 1
                   THEN [ShiftRight(x_m[ilev], vs) EXCEPT
                           ![0] = x_m[ilev - 1][VECTOR_END(vs)]]
                   ELSE ShiftRight(x_m[0], vs)
             IN  [ilev \in DOMAIN dx_i |->
                    IF ilev < NUM_LEV(vs)
                    THEN combinePack(CM, PSub(x_m[ilev], tmpOf(ilev)),
                                     dx_i[ilev], alpha, beta)
                    ELSE dx_i[ilev]]
      \* Fix the top/bottom (on the GPU path the bottom entry is pack
      \* NUM_INTERFACE_LEV-1, lane 0, which is LAST_PACK, LAST_PACK_END there)
      top == [loop EXCEPT ![0][0] = combine(CM, bc, loop[0][0], alpha, beta)]
  IN  IF bcType = "DoNothing"
      THEN loop
      ELSE [top EXCEPT ![LAST_PACK][LAST_PACK_END] =
              combine(CM, bc, top[LAST_PACK][LAST_PACK_END], alpha, beta)]

(***************************************************************************)
(* ColumnOps::column_scan_impl, wide-vector (host) version.  prov[ilev] is *)
(* what input_provider(ilev) returns, for every pack of the LENGTH scan.   *)
(***************************************************************************)
\* one iteration of the forward loop of ScanFwdHost below, on the pack
\* input the provider returned for ilev: the view with sum(ilev) written,
\* and the running integral carried to the next iteration
ScanFwdHostIteration(ilev, integration, sum, input, Inclusive, LENGTH, vs) ==
  LET vec_end == IF ilev = LastPack(LENGTH, vs)
                 THEN LastPackEnd(LENGTH, vs) ELSE VECTOR_END(vs)
      s[iv \in 0..vec_end] ==
        IF iv = 0
        THEN RAdd(integration, IF Inclusive THEN input[0] ELSE Zero)
        ELSE RAdd(s[iv - 1], IF Inclusive THEN input[iv] ELSE input[iv - 1])
      sum_val == [iv \in DOMAIN sum[ilev] |->
                    IF iv <= vec_end THEN s[iv] ELSE sum[ilev][iv]]
  IN  [sum |-> [sum EXCEPT ![ilev] = sum_val],
       integration |-> RAdd(sum_val[vec_end],
                            IF Inclusive THEN Zero ELSE input[vec_end])]

RECURSIVE ScanFwdHost(_, _, _, _, _, _, _)
ScanFwdHost(ilev, integration, sum, prov, Inclusive, LENGTH, vs) ==
  IF ilev >= NumPacks(LENGTH, vs)
  THEN sum
  ELSE LET vec_end == IF ilev = LastPack(LENGTH, vs)
                      THEN LastPackEnd(LENGTH, vs) ELSE VECTOR_END(vs)
           input == prov[ilev]
           s[iv \in 0..vec_end] ==
             IF iv = 0
             THEN RAdd(integration, IF Inclusive THEN input[0] ELSE Zero)
             ELSE RAdd(s[iv - 1], IF Inclusive THEN input[iv] ELSE input[iv - 1])
           sum_val == [iv \in DOMAIN sum[ilev] |->
                         IF iv <= vec_end THEN s[iv] ELSE sum[ilev][iv]]
       IN  ScanFwdHost(ilev + 1,
                       RAdd(sum_val[vec_end],
                            IF Inclusive THEN Zero ELSE input[vec_end]),
                       [sum EXCEPT ![ilev] = sum_val],
                       prov, Inclusive, LENGTH, vs)

RECURSIVE ScanBwdHost(_, _, _, _, _, _, _)
ScanBwdHost(ilev, integration, sum, prov, Inclusive, LENGTH, vs) ==
  IF ilev < 0
  THEN sum
  ELSE LET vec_start == IF ilev = LastPack(LENGTH, vs)
                        THEN LastPackEnd(LENGTH, vs) ELSE VECTOR_END(vs)
           input == prov[ilev]
           s[iv \in 0..vec_start] ==
             IF iv = vec_start
             THEN RAdd(integration, IF Inclusive THEN input[vec_start] ELSE Zero)
             ELSE RAdd(s[iv + 1], IF Inclusive THEN input[iv] ELSE input[iv + 1])
           sum_val == [iv \in DOMAIN sum[ilev] |->
                         IF iv <= vec_start THEN s[iv] ELSE sum[ilev][iv]]
       IN  ScanBwdHost(ilev - 1,
                       RAdd(sum_val[0], IF Inclusive THEN Zero ELSE input[0]),
                       [sum EXCEPT ![ilev] = sum_val],
                       prov, Inclusive, LENGTH, vs)

(***************************************************************************)
(* ColumnOps::column_scan_impl, GPU version (packs of one lane): a         *)
(* parallel_scan whose accumulator, at step k, is s0 plus the inputs of    *)
(* steps 0..k.  The accumulator starts at zero; step 0 adds its input and  *)
(* then s0, every later step adds its input.                               *)
(***************************************************************************)
RECURSIVE ScanAccumulator(_, _, _, _, _)
ScanAccumulator(k, prov, Forward, LENGTH, s0) ==
  LET lev == IF Forward THEN k ELSE LENGTH - k - 1
  IN  IF k = 0
      THEN RAdd(RAdd(Zero, prov[lev][0]), s0)
      ELSE RAdd(ScanAccumulator(k - 1, prov, Forward, LENGTH, s0), prov[lev][0])

ScanGpu(sum, prov, Forward, Inclusive, LENGTH, s0) ==
  LET offset == IF Inclusive THEN 0 ELSE 1
      written(j) ==
        IF Forward
        THEN (j - offset) \in 0..(IF Inclusive THEN LENGTH - 1 ELSE LENGTH - 2)
        ELSE (j + offset) \in (IF Inclusive THEN 0 ELSE 1)..(LENGTH - 1)
      stepOf(j) == IF Forward THEN j - offset ELSE LENGTH - (j + offset) - 1
  IN  [j \in DOMAIN sum |->
         IF written(j)
         THEN [v \in DOMAIN sum[j] |->
                 ScanAccumulator(stepOf(j), prov, Forward, LENGTH, s0)]
         ELSE sum[j]]

column_scan_impl(gpu, vs, Forward, Inclusive, LENGTH, prov, sum, s0) ==
  IF gpu
  THEN ScanGpu(sum, prov, Forward, Inclusive, LENGTH, s0)
  ELSE IF Forward
       THEN ScanFwdHost(0, s0, sum, prov, Inclusive, LENGTH, vs)
       ELSE ScanBwdHost(LastPack(LENGTH, vs), s0, sum, prov, Inclusive, LENGTH, vs)

(***************************************************************************)
(* ColumnOps::column_scan_mid_to_int: midpoint input, interface output;    *)
(* sum(0) (forward) or sum(NUM_INTERFACE_LEV-1) (backward) holds the       *)
(* initial value.  input is a midpoint view of NUM_LEV packs; the forward  *)
(* scan is run as an exclusive scan over NUM_INTERFACE_LEV entries, so the *)
(* provider is also asked for the packs of that length (oob past the view).*)
(***************************************************************************)
\* (a variant that starts the forward scan from zero instead of sum(0))
column_scan_mid_to_int_from_zero(gpu, vs, Forward, input, sum, oob) ==
  column_scan_impl(gpu, vs, TRUE, FALSE, NUM_INTERFACE_LEV,
                   [ilev \in 0..(NumPacks(NUM_INTERFACE_LEV, vs) - 1) |->
                      Provide(input, ilev, oob)],
                   sum, Zero)

column_scan_mid_to_int(gpu, vs, Forward, input, sum, oob) ==
  IF Forward
  THEN column_scan_impl(gpu, vs, TRUE, FALSE, NUM_INTERFACE_LEV,
                        [ilev \in 0..(NumPacks(NUM_INTERFACE_LEV, vs) - 1) |->
                           Provide(input, ilev, oob)],
                        sum, sum[0][0])
  ELSE LET LAST_MID_PACK == LastPack(NUM_PHYSICAL_LEV, vs)
           LAST_MID_PACK_END == LastPackEnd(NUM_PHYSICAL_LEV, vs)
           LAST_INT_PACK == LastPack(NUM_INTERFACE_LEV, vs)
           LAST_INT_PACK_END == LastPackEnd(NUM_INTERFACE_LEV, vs)
           s0 == sum[LAST_INT_PACK][LAST_INT_PACK_END]
           \* sum_cropped aliases the first NUM_LEV packs of sum
           sum_init == [sum EXCEPT ![LAST_MID_PACK][LAST_MID_PACK_END] = s0]
           sum_cropped == [ilev \in 0..LAST_MID_PACK |-> sum_init[ilev]]
           scanned == column_scan_impl(gpu, vs, FALSE, TRUE, NUM_PHYSICAL_LEV,
                                       input, sum_cropped, s0)
       IN  [ilev \in DOMAIN sum |->
              IF ilev <= LAST_MID_PACK THEN scanned[ilev] ELSE sum_init[ilev]]

(***************************************************************************)
(* compute_hydrostatic_p: EquationOfState and ElementOps.  The result is   *)
(* the pair of views (p_i, pi).                                            *)
(***************************************************************************)
EOS_compute_hydrostatic_p(gpu, vs, hybrid_ai0, ps0, dp, p_i, pi, oob) ==
  LET top == [p_i EXCEPT ![0][0] = RMul(hybrid_ai0, ps0)]
      scanned == column_scan_mid_to_int(gpu, vs, TRUE, dp, top, oob)
  IN  [p_i |-> scanned,
       pi |-> compute_midpoint_values(gpu, vs, "Replace", scanned, pi, One, Zero)]

ElementOps_compute_hydrostatic_p(gpu, vs, hybrid_ai0, ps0, dp, p_i, pi, oob) ==
  LET top == [p_i EXCEPT ![0][0] = RMul(hybrid_ai0, ps0)]
      scanned == column_scan_mid_to_int(gpu, vs, TRUE, dp, top, oob)
  IN  [p_i |-> scanned,
       pi |-> [ilev \in DOMAIN pi |-> PAdd(scanned[ilev], PHalf(dp[ilev]))]]

(***************************************************************************)
(* State.                                                                  *)
(*   col_in   the arguments of a column kernel call: logical columns and   *)
(*            scalars, and the pack width vs of the wide-vector build      *)
(*   col_out  per code path ("host": wide-vector, "gpu": scalar/GPU), the  *)
(*            interface view (int) and the midpoint view (mid) the kernel  *)
(*            writes, laid out in that build's packs                       *)
(*   col_ran  per code path, the kernel that has run ("none" before)       *)
(***************************************************************************)
VARIABLES
  \* column kernels: the arguments of a call, the output views of each code
  \* path, and the last operation each path has run
  col_in, col_out, col_ran,
  \* legacy-model call boundary: enabled floating-point exceptions, position,
  \* the saved fpe_mask local, the driver object held by the context; the
  \* build flag SCREAM_FPE; history: mask at entry, last function returned
  fpe_enabled, fpe_pc, fpe_mask, fpe_ad, fpe_compiled, fpe_entry, fpe_returned,
  \* runtime_check: arguments (with the standard error found at the call),
  \* whether MPI is initialized, position, standard error, session, how the
  \* process ended
  abort_in, abort_mpi, abort_pc, abort_stderr, abort_session, abort_exit,
  \* driver and process group: the configuration, the driver's lifecycle
  \* state, whether a host step is in progress, the next entry of the group to
  \* run, each member's status and run count in the step, completed steps, the
  \* marker field and the value its consumer last read; history: whether any
  \* run() has begun
  drv_cfg, drv_state, drv_pc, drv_next, drv_proc, drv_count, drv_steps,
  drv_marker, drv_read, drv_ran,
  \* IOP forcing, one team: the run's parameters, the team's position in the
  \* three kernels, the state of each (igp,jgp) iteration of the first kernel,
  \* and the slots taken from and released to the workspace so far, by name
  iop_cfg, iop_pc, iop_idx, iop_taken, iop_released,
  \* output manager test: the entry's initial value and the step, the field
  \* entry, the four accumulated local views with the sample count, the values
  \* sampled at the run calls (history), the files written, position
  io_cfg, io_field, io_acc, io_samples, io_file, io_pc,
  \* the build of the column kernels (whether NDEBUG is defined) and, per code
  \* path, the fatal error a call ended with
  col_ndebug, col_fatal,
  \* remap state adapter: the time level remapped, the state indices whose
  \* intrinsic flag was queried and those reported intrinsic, and the array
  \* get_state returned for each index
  rmp_np1, rmp_asked, rmp_intrinsic, rmp_view,
  \* P3 water conservation: the arguments of a call (routine, mass, dt, rates),
  \* the rates it leaves, position
  p3_in, p3_out, p3_pc,
  \* SHOC macrophysics: the build and tracer count, position in run_impl, the
  \* number of the call, the tracer allocations (extent in packs and contents),
  \* the allocations shoc_preamble.tracers and input_output.qtracers refer to;
  \* history: the contents shoc_main was handed
  shoc_cfg, shoc_pc, shoc_call, shoc_heap, shoc_preamble_tracers, shoc_qtracers, shoc_seen,
  \* apply_iop_forcing, host side: the number of elements, the host's position,
  \* and, per kernel, the number of its teams not yet started, running, and
  \* finished
  knl_nelem, knl_host, knl_pending, knl_running, knl_done,
  \* advance_iop_subsidence: the arguments of the call, the omega_int slot
  \* (scalarized), each team thread's position and its next loop iteration, the
  \* boundary entries of omega_int as read by the update loop (history), the
  \* columns the call leaves, position of the call
  sub_in, sub_omega_int, sub_thread, sub_seen, sub_out, sub_pc,
  \* compute_qdp_and_vtheta_dp kernel of apply_iop_forcing, one team: the element's
  \* views on entry, Q_dyn, Qdp_dyn and vtheta_dp_dyn of the element, how often
  \* each (point, tracer, level) was written (history), the Gauss points whose
  \* thread has not run yet
  qdp_in, qdp_Q, qdp_Qdp, qdp_vtheta_dp, qdp_writes, qdp_todo, qdp_host,
  \* get_required_grids: the Grid entry of each instance's parameter list, the
  \* function-local static set of each class, the last call and what it returned,
  \* the number of calls made
  grd_params, grd_static, grd_ret, grd_calls,
  \* MAMOptics::run_impl: the number of local columns, the host's position, per
  \* column the state of its preprocess work item, per column and team thread
  \* the position in the optics kernel, per column the state of its postprocess
  \* work item
  mam_ncol, mam_host, mam_queue, mam_pre, mam_opt, mam_post,
  \* apply_iop_forcing on one column: the configuration, the dynamics fields
  \* when the call starts, the dynamics fields now, the local views temperature
  \* and exner, and the kernel the call is about to launch
  frc_cfg, frc_in, frc_dyn, frc_tmp, frc_pc

colVars == <<col_in, col_out, col_ran>>
fpeVars == <<fpe_enabled, fpe_pc, fpe_mask, fpe_ad, fpe_compiled, fpe_entry, fpe_returned>>
abortVars == <<abort_in, abort_mpi, abort_pc, abort_stderr, abort_session, abort_exit>>
drvVars == <<drv_cfg, drv_state, drv_pc, drv_next, drv_proc, drv_count,
             drv_steps, drv_marker, drv_read, drv_ran>>
iopVars == <<iop_cfg, iop_pc, iop_idx, iop_taken, iop_released>>
ioVars == <<io_cfg, io_field, io_acc, io_samples, io_file, io_pc>>
sanVars == <<col_ndebug, col_fatal>>
rmpVars == <<rmp_np1, rmp_asked, rmp_intrinsic, rmp_view>>
p3Vars == <<p3_in, p3_out, p3_pc>>
shocVars == <<shoc_cfg, shoc_pc, shoc_call, shoc_heap, shoc_preamble_tracers, shoc_qtracers, shoc_seen>>
knlVars == <<knl_nelem, knl_host, knl_pending, knl_running, knl_done>>
subVars == <<sub_in, sub_omega_int, sub_thread, sub_seen, sub_out, sub_pc>>
qdpVars == <<qdp_in, qdp_Q, qdp_Qdp, qdp_vtheta_dp, qdp_writes, qdp_todo, qdp_host>>
grdVars == <<grd_params, grd_static, grd_ret, grd_calls>>
mamVars == <<mam_ncol, mam_host, mam_queue, mam_pre, mam_opt, mam_post>>
frcVars == <<frc_cfg, frc_in, frc_dyn, frc_tmp, frc_pc>>
vars == <<colVars, fpeVars, abortVars, drvVars, iopVars, ioVars, sanVars, rmpVars, p3Vars, shocVars, knlVars, subVars, qdpVars, grdVars, mamVars, frcVars>>

\* a subsystem no call is made into
ColIdle == col_in = <<>> /\ col_out = <<>> /\ col_ran = <<>>
FpeIdle ==
  /\ fpe_enabled = {} /\ fpe_pc = "caller" /\ fpe_mask = {} /\ fpe_ad = "none"
  /\ fpe_compiled = FALSE /\ fpe_entry = {} /\ fpe_returned = "none"
AbortIdle ==
  /\ abort_in = <<>> /\ abort_mpi = FALSE /\ abort_pc = "idle"
  /\ abort_stderr = <<>> /\ abort_session = "active" /\ abort_exit = <<"running">>

DrvIdle ==
  /\ drv_cfg = <<>> /\ drv_state = "created" /\ drv_pc = "outside"
  /\ drv_next = 1 /\ drv_proc = <<>> /\ drv_count = <<>> /\ drv_steps = 0
  /\ drv_marker = 0 /\ drv_read = 0 /\ drv_ran = FALSE

IopIdle ==
  /\ iop_cfg = <<>> /\ iop_pc = "idle" /\ iop_idx = <<>>
  /\ iop_taken = <<>> /\ iop_released = <<>>

IoIdle ==
  /\ io_cfg = <<>> /\ io_field = <<>> /\ io_acc = <<>> /\ io_samples = <<>>
  /\ io_file = <<>> /\ io_pc = "idle"

SanIdle ==
  /\ col_ndebug = FALSE /\ col_fatal = <<>>

RmpIdle ==
  /\ rmp_np1 = 0 /\ rmp_asked = {} /\ rmp_intrinsic = {} /\ rmp_view = <<>>

P3Idle ==
  /\ p3_in = <<>> /\ p3_out = <<>> /\ p3_pc = "idle"

ShocIdle ==
  /\ shoc_cfg = <<>> /\ shoc_pc = "idle" /\ shoc_call = 0 /\ shoc_heap = <<>>
  /\ shoc_preamble_tracers = 0 /\ shoc_qtracers = 0 /\ shoc_seen = <<>>

KnlIdle ==
  /\ knl_nelem = 0 /\ knl_host = "idle" /\ knl_pending = <<>> /\ knl_running = <<>>
  /\ knl_done = <<>>

SubIdle ==
  /\ sub_in = <<>> /\ sub_omega_int = <<>> /\ sub_thread = <<>> /\ sub_seen = {}
  /\ sub_out = <<>> /\ sub_pc = "idle"

QdpIdle ==
  /\ qdp_in = <<>> /\ qdp_Q = <<>> /\ qdp_Qdp = <<>> /\ qdp_vtheta_dp = <<>>
  /\ qdp_writes = <<>> /\ qdp_todo = {} /\ qdp_host = "idle"

GrdIdle ==
  /\ grd_params = <<>> /\ grd_static = <<>> /\ grd_ret = <<>> /\ grd_calls = 0

MamIdle ==
  /\ mam_ncol = 0 /\ mam_host = "idle" /\ mam_queue = <<>>
  /\ mam_pre = <<>> /\ mam_opt = <<>> /\ mam_post = <<>>

FrcIdle ==
  /\ frc_cfg = <<>> /\ frc_in = <<>> /\ frc_dyn = <<>> /\ frc_tmp = <<>> /\ frc_pc = "idle"

\* what a call into one subsystem leaves alone
ColFrame == UNCHANGED <<fpeVars, abortVars, drvVars, iopVars, ioVars, sanVars, rmpVars, p3Vars, shocVars, knlVars, subVars, qdpVars, grdVars, mamVars, frcVars>>
FpeFrame == UNCHANGED <<colVars, abortVars, drvVars, iopVars, ioVars, sanVars, rmpVars, p3Vars, shocVars, knlVars, subVars, qdpVars, grdVars, mamVars, frcVars>>
AbortFrame == UNCHANGED <<colVars, fpeVars, drvVars, iopVars, ioVars, sanVars, rmpVars, p3Vars, shocVars, knlVars, subVars, qdpVars, grdVars, mamVars, frcVars>>
DrvFrame == UNCHANGED <<colVars, fpeVars, abortVars, iopVars, ioVars, sanVars, rmpVars, p3Vars, shocVars, knlVars, subVars, qdpVars, grdVars, mamVars, frcVars>>
IopFrame == UNCHANGED <<colVars, fpeVars, abortVars, drvVars, ioVars, sanVars, rmpVars, p3Vars, shocVars, knlVars, subVars, qdpVars, grdVars, mamVars, frcVars>>
IoFrame == UNCHANGED <<colVars, fpeVars, abortVars, drvVars, iopVars, sanVars, rmpVars, p3Vars, shocVars, knlVars, subVars, qdpVars, grdVars, mamVars, frcVars>>
SanFrame == UNCHANGED <<fpeVars, abortVars, drvVars, iopVars, ioVars, rmpVars, p3Vars, shocVars, knlVars, subVars, qdpVars, grdVars, mamVars, frcVars>>
RmpFrame == UNCHANGED <<colVars, fpeVars, abortVars, drvVars, iopVars, ioVars, sanVars, p3Vars, shocVars, knlVars, subVars, qdpVars, grdVars, mamVars, frcVars>>
P3Frame == UNCHANGED <<colVars, fpeVars, abortVars, drvVars, iopVars, ioVars, sanVars, rmpVars, shocVars, knlVars, subVars, qdpVars, grdVars, mamVars, frcVars>>
ShocFrame == UNCHANGED <<colVars, fpeVars, abortVars, drvVars, iopVars, ioVars, sanVars, rmpVars, p3Vars, knlVars, subVars, qdpVars, grdVars, mamVars, frcVars>>
KnlFrame == UNCHANGED <<colVars, fpeVars, abortVars, drvVars, iopVars, ioVars, sanVars, rmpVars, p3Vars, shocVars, subVars, qdpVars, grdVars, mamVars, frcVars>>
SubFrame == UNCHANGED <<colVars, fpeVars, abortVars, drvVars, iopVars, ioVars, sanVars, rmpVars, p3Vars, shocVars, knlVars, qdpVars, grdVars, mamVars, frcVars>>
QdpFrame == UNCHANGED <<colVars, fpeVars, abortVars, drvVars, iopVars, ioVars, sanVars, rmpVars, p3Vars, shocVars, knlVars, subVars, grdVars, mamVars, frcVars>>
GrdFrame == UNCHANGED <<colVars, fpeVars, abortVars, drvVars, iopVars, ioVars, sanVars, rmpVars, p3Vars, shocVars, knlVars, subVars, qdpVars, mamVars, frcVars>>
MamFrame == UNCHANGED <<colVars, fpeVars, abortVars, drvVars, iopVars, ioVars, sanVars, rmpVars, p3Vars, shocVars, knlVars, subVars, qdpVars, grdVars, frcVars>>
FrcFrame == UNCHANGED <<colVars, fpeVars, abortVars, drvVars, iopVars, ioVars, sanVars, rmpVars, p3Vars, shocVars, knlVars, subVars, qdpVars, grdVars, mamVars>>

Paths == {"host", "gpu"}
OnGpu(path) == path = "gpu"
\* pack width of a path: the GPU build has VECTOR_SIZE = 1
VS(path) == IF OnGpu(path) THEN 1 ELSE col_in.vs

Vals == {Real(i) : i \in 0..MaxVal}
PosVals == {Real(i) : i \in 1..(MaxVal + 1)}
Levels == 0..(NUM_PHYSICAL_LEV - 1)
Interfaces == 0..(NUM_INTERFACE_LEV - 1)

\* a pack of the path's width, every lane holding val
FillPack(path, val) == [v \in 0..(VS(path) - 1) |-> val]

\* the views a call finds on each path: the logical prior contents in the
\* path's layout, padding lanes holding col_in.pad
PriorViews ==
  [path \in Paths |->
     [int |-> PackView(col_in.prior_i, NUM_INTERFACE_LEV, VS(path), col_in.pad),
      mid |-> PackView(col_in.prior_m, NUM_PHYSICAL_LEV, VS(path), col_in.pad)]]

MidView(path, col) == PackView(col, NUM_PHYSICAL_LEV, VS(path), col_in.pad)
IntView(path, col) == PackView(col, NUM_INTERFACE_LEV, VS(path), col_in.pad)

ColInputs(xmSet, priorISet, priorMSet, wSet, cmSet, bcSet, bcValSet, alphaSet, betaSet, ai0Set, ps0Set, modeSet) ==
  [vs : 1..MaxVectorSize,
   x_m : [Levels -> xmSet],
   prior_i : priorISet,
   prior_m : priorMSet,
   weights_m : [Levels -> wSet],
   weights_i : [Interfaces -> wSet],
   pad : PosVals,
   CM : cmSet,
   bcType : bcSet,
   bcVal : bcValSet,
   alpha : alphaSet,
   beta : betaSet,
   hybrid_ai0 : ai0Set,
   ps0 : ps0Set,
   theta_hydrostatic_mode : modeSet]

\* ColumnOps::sanity_check: alpha (beta) may differ from 1 (0) only under a
\* combine mode that uses it
sanity_check_alpha_only(CM, alpha, beta) == needsAlpha(CM) \/ alpha = One

\* (beta==0.0 compares values: it holds for the negative zero too)
sanity_check(CM, alpha, beta) ==
  /\ needsAlpha(CM) \/ alpha = One
  /\ needsBeta(CM) \/ IsZero(beta)

ValidInputs(inputs) == {c \in inputs : sanity_check(c.CM, c.alpha, c.beta)}

ConstCols(dom, valSet) == {[k \in dom |-> val] : val \in valSet}

(***************************************************************************)
(* Hydrostatic pressure: the caller passes a layer-thickness column dp     *)
(* (col_in.x_m, all entries > 0) and output views with arbitrary contents. *)
(***************************************************************************)
HydroInit ==
  /\ col_in \in ColInputs(PosVals, ConstCols(Interfaces, Vals),
                          ConstCols(Levels, {Zero}), {One}, {"Replace"},
                          {"Zero"}, {Zero}, {One}, {Zero}, Vals, {One, Two}, BOOLEAN)
  /\ col_out = PriorViews
  /\ col_ran = [path \in Paths |-> "none"]
  /\ FpeIdle /\ AbortIdle /\ DrvIdle /\ IopIdle /\ IoIdle /\ SanIdle /\ RmpIdle /\ P3Idle /\ ShocIdle /\ KnlIdle /\ SubIdle /\ QdpIdle /\ GrdIdle /\ MamIdle /\ FrcIdle

\* EquationOfState::compute_hydrostatic_p asserts hydrostatic mode
EOSHydrostaticP(path) ==
  /\ col_ran[path] = "none"
  /\ col_in.theta_hydrostatic_mode
  /\ \E oob \in Vals :
       col_out' = [col_out EXCEPT ![path] =
         LET r == EOS_compute_hydrostatic_p(OnGpu(path), VS(path),
                    col_in.hybrid_ai0, col_in.ps0, MidView(path, col_in.x_m),
                    col_out[path].int, col_out[path].mid, FillPack(path, oob))
         IN  [int |-> r.p_i, mid |-> r.pi]]
  /\ col_ran' = [col_ran EXCEPT ![path] = "EquationOfState"]
  /\ UNCHANGED col_in
  /\ ColFrame

ElementOpsHydrostaticP(path) ==
  /\ col_ran[path] = "none"
  /\ \E oob \in Vals :
       col_out' = [col_out EXCEPT ![path] =
         LET r == ElementOps_compute_hydrostatic_p(OnGpu(path), VS(path),
                    col_in.hybrid_ai0, col_in.ps0, MidView(path, col_in.x_m),
                    col_out[path].int, col_out[path].mid, FillPack(path, oob))
         IN  [int |-> r.p_i, mid |-> r.pi]]
  /\ col_ran' = [col_ran EXCEPT ![path] = "ElementOps"]
  /\ UNCHANGED col_in
  /\ ColFrame

HydroNext ==
  \/ \E path \in Paths : EOSHydrostaticP(path)
  \/ \E path \in Paths : ElementOpsHydrostaticP(path)

SpecHydro == HydroInit /\ [][HydroNext]_vars

\* C1: after compute_hydrostatic_p (either implementation, either path), the
\* top interface pressure is hybrid_ai0*ps0 and each interface pressure is the
\* one above plus the layer thickness: p_i(k+1) = p_i(k) + dp(k), k in 0..NLEV-1.
C1_HydrostaticPressure ==
  \A path \in Paths :
    col_ran[path] # "none" =>
      /\ Lvl(col_out[path].int, VS(path), 0) = RMul(col_in.hybrid_ai0, col_in.ps0)
      /\ \A k \in Levels :
           Lvl(col_out[path].int, VS(path), k + 1) =
             RAdd(Lvl(col_out[path].int, VS(path), k), col_in.x_m[k])

\* both implementations have run (one per path) on a column whose layers differ
C1_Witness ==
  /\ col_ran["host"] = "EquationOfState"
  /\ col_ran["gpu"] = "ElementOps"
  /\ col_in.x_m[0] # col_in.x_m[1]
  /\ col_in.vs > 1
  /\ Lvl(col_out["host"].int, VS("host"), NUM_PHYSICAL_LEV) # col_in.prior_i[NUM_PHYSICAL_LEV]

(***************************************************************************)
(* Weighted interface average: both code paths are given the same logical  *)
(* arguments and the same prior output.                                    *)
(***************************************************************************)
WeightedInit ==
  /\ col_in \in ValidInputs(ColInputs(Vals, ConstCols(Interfaces, Vals),
                              ConstCols(Levels, {Zero}), PosVals,
                              {"Replace", "Update"}, {"Zero"}, {Zero},
                              {One}, {Zero, One}, {Zero}, {One}, {FALSE}))
  /\ col_out = PriorViews
  /\ col_ran = [path \in Paths |-> "none"]
  /\ FpeIdle /\ AbortIdle /\ DrvIdle /\ IopIdle /\ IoIdle /\ SanIdle /\ RmpIdle /\ P3Idle /\ ShocIdle /\ KnlIdle /\ SubIdle /\ QdpIdle /\ GrdIdle /\ MamIdle /\ FrcIdle

WeightedInterfaceValues(path) ==
  /\ col_ran[path] = "none"
  /\ sanity_check(col_in.CM, col_in.alpha, col_in.beta)
  /\ \E oob \in Vals :
       col_out' = [col_out EXCEPT ![path].int =
         compute_interface_values_weighted(OnGpu(path), VS(path), col_in.CM,
           MidView(path, col_in.weights_m), IntView(path, col_in.weights_i),
           MidView(path, col_in.x_m), col_out[path].int,
           col_in.alpha, col_in.beta, FillPack(path, oob))]
  /\ col_ran' = [col_ran EXCEPT ![path] = "compute_interface_values_weighted"]
  /\ UNCHANGED col_in
  /\ ColFrame

WeightedNext == \E path \in Paths : WeightedInterfaceValues(path)

SpecWeighted == WeightedInit /\ [][WeightedNext]_vars

\* the two paths have produced the same interface column
SameInterfaceColumn ==
  \A k \in Interfaces :
    Lvl(col_out["host"].int, VS("host"), k) = Lvl(col_out["gpu"].int, VS("gpu"), k)

\* C8: for identical inputs the wide-vector path and the scalar/GPU path of the
\* weighted compute_interface_values produce identical x_i at every interface
\* 0..NLEV, the bottom interface included.
C8_WeightedPathsAgree ==
  (\A path \in Paths : col_ran[path] = "compute_interface_values_weighted")
    => SameInterfaceColumn

(***************************************************************************)
(* Unweighted interface values and interface deltas, every combine mode    *)
(* (with alpha/beta valid for it) and every boundary-condition type.       *)
(***************************************************************************)
InterfaceInit ==
  /\ col_in \in ValidInputs(ColInputs(Vals, ConstCols(Interfaces, Vals),
                              ConstCols(Levels, {Zero}), {One},
                              CombineModes, BCTypes, Vals,
                              Vals, Vals, {Zero}, {One}, {FALSE}))
  /\ col_out = PriorViews
  /\ col_ran = [path \in Paths |-> "none"]
  /\ FpeIdle /\ AbortIdle /\ DrvIdle /\ IopIdle /\ IoIdle /\ SanIdle /\ RmpIdle /\ P3Idle /\ ShocIdle /\ KnlIdle /\ SubIdle /\ QdpIdle /\ GrdIdle /\ MamIdle /\ FrcIdle

InterfaceValues(path) ==
  /\ col_ran[path] = "none"
  /\ sanity_check(col_in.CM, col_in.alpha, col_in.beta)
  /\ col_out' = [col_out EXCEPT ![path].int =
       compute_interface_values(OnGpu(path), VS(path), col_in.CM,
         MidView(path, col_in.x_m), col_out[path].int,
         col_in.alpha, col_in.beta)]
  /\ col_ran' = [col_ran EXCEPT ![path] = "compute_interface_values"]
  /\ UNCHANGED col_in
  /\ ColFrame

InterfaceDelta(path) ==
  /\ col_ran[path] = "none"
  /\ sanity_check(col_in.CM, col_in.alpha, col_in.beta)
  /\ col_out' = [col_out EXCEPT ![path].int =
       compute_interface_delta(OnGpu(path), VS(path), col_in.CM, col_in.bcType,
         MidView(path, col_in.x_m), col_out[path].int,
         col_in.bcVal, col_in.alpha, col_in.beta)]
  /\ col_ran' = [col_ran EXCEPT ![path] = "compute_interface_delta"]
  /\ UNCHANGED col_in
  /\ ColFrame

InterfaceNext ==
  \/ \E path \in Paths : InterfaceValues(path)
  \/ \E path \in Paths : InterfaceDelta(path)

SpecInterface == InterfaceInit /\ [][InterfaceNext]_vars

\* C9: for every combine mode (alpha/beta valid for it) and every boundary
\* condition type, the wide-vector path and the scalar/GPU path of the
\* unweighted compute_interface_values, and of compute_interface_delta, leave
\* identical values at every interface (top and bottom included) when given
\* identical inputs and identical prior output.
C9_UnweightedPathsAgree ==
  (/\ col_ran["host"] = col_ran["gpu"]
   /\ col_ran["host"] \in {"compute_interface_values", "compute_interface_delta"})
    => SameInterfaceColumn

(***************************************************************************)
(* Round trip: compute_interface_values on a midpoint column, then         *)
(* compute_midpoint_values on the interface column it produced (Replace).  *)
(***************************************************************************)
RoundTripInit ==
  /\ col_in \in ColInputs(Vals, ConstCols(Interfaces, Vals),
                          ConstCols(Levels, Vals), {One}, {"Replace"},
                          {"Zero"}, {Zero}, {One}, {Zero}, {Zero}, {One}, {FALSE})
  /\ col_out = PriorViews
  /\ col_ran = [path \in Paths |-> "none"]
  /\ FpeIdle /\ AbortIdle /\ DrvIdle /\ IopIdle /\ IoIdle /\ SanIdle /\ RmpIdle /\ P3Idle /\ ShocIdle /\ KnlIdle /\ SubIdle /\ QdpIdle /\ GrdIdle /\ MamIdle /\ FrcIdle

\* both calls are made with the default alpha = 1, beta = 0
RoundTripInterfaceValues(path) ==
  /\ col_ran[path] = "none"
  /\ col_out' = [col_out EXCEPT ![path].int =
       compute_interface_values(OnGpu(path), VS(path), col_in.CM,
         MidView(path, col_in.x_m), col_out[path].int, One, Zero)]
  /\ col_ran' = [col_ran EXCEPT ![path] = "compute_interface_values"]
  /\ UNCHANGED col_in
  /\ ColFrame

RoundTripMidpointValues(path) ==
  /\ col_ran[path] = "compute_interface_values"
  /\ col_out' = [col_out EXCEPT ![path].mid =
       compute_midpoint_values(OnGpu(path), VS(path), col_in.CM,
         col_out[path].int, col_out[path].mid, One, Zero)]
  /\ col_ran' = [col_ran EXCEPT ![path] = "compute_midpoint_values"]
  /\ UNCHANGED col_in
  /\ ColFrame

RoundTripNext ==
  \/ \E path \in Paths : RoundTripInterfaceValues(path)
  \/ \E path \in Paths : RoundTripMidpointValues(path)

SpecRoundTrip == RoundTripInit /\ [][RoundTripNext]_vars

IsConstantColumn(col) == \A k \in DOMAIN col : col[k] = col[0]

\* the midpoint column a path holds after the round trip is the input column
Reproduced(path) ==
  \A k \in Levels : Lvl(col_out[path].mid, VS(path), k) = col_in.x_m[k]

\* the midpoint column obtained from x_m by the two calls, on fresh views
RoundTripOf(gpu, vs, x_m, pad) ==
  LET mid == PackView(x_m, NUM_PHYSICAL_LEV, vs, pad)
      int == compute_interface_values(gpu, vs, "Replace", mid,
               PackView([k \in Interfaces |-> Zero], NUM_INTERFACE_LEV, vs, pad),
               One, Zero)
      back == compute_midpoint_values(gpu, vs, "Replace", int, mid, One, Zero)
  IN  [k \in Levels |-> Lvl(back, vs, k)]

\* C10 (as stated): there is at least one non-constant midpoint column x_m
\* that compute_interface_values followed by compute_midpoint_values
\* reproduces at every level (on some path, in the pack layout in use).
C10_SomeNonConstantColumnReproduced ==
  \E x_m \in [Levels -> Vals], path \in Paths :
    /\ ~IsConstantColumn(x_m)
    /\ RoundTripOf(OnGpu(path), VS(path), x_m, col_in.pad) = x_m

\* C10 (amended): once both calls have run on a path, the midpoint column is
\* reproduced at every level exactly when the input column is constant; no
\* non-constant column survives the round trip.
C10_RoundTripOnlyConstant ==
  \A path \in Paths :
    col_ran[path] = "compute_midpoint_values" =>
      (Reproduced(path) <=> IsConstantColumn(col_in.x_m))

\* both paths have completed the round trip on a non-constant column stored in
\* wide packs, and a constant column would have been reproduced over the prior
C10_Witness ==
  /\ \A path \in Paths : col_ran[path] = "compute_midpoint_values"
  /\ ~IsConstantColumn(col_in.x_m)
  /\ col_in.vs > 1
  /\ col_in.prior_m[0] # col_in.x_m[0]
  /\ \A path \in Paths : ~Reproduced(path)

(***************************************************************************)
(* Legacy-model call boundary: scream_init, scream_run, scream_finalize.   *)
(* A set of exception names stands for the FPE mask of the processor.      *)
(***************************************************************************)
AllFpes == {"INVALID", "DIV_ZERO", "OVERFLOW", "UNDERFLOW", "INEXACT"}

\* the exceptions scream traps (static constexpr exceptions)
exceptions == {"INVALID", "DIV_ZERO", "OVERFLOW"}

\* util::activate_floating_point_exceptions_if_enabled, called by the session
\* initialization: clears the mask bits of four exceptions under SCREAM_FPE
activate_floating_point_exceptions_if_enabled(enabled, compiled) ==
  IF compiled
  THEN enabled \cup {"INVALID", "DIV_ZERO", "OVERFLOW", "UNDERFLOW"}
  ELSE enabled

initialize_scream_session(enabled, compiled) ==
  activate_floating_point_exceptions_if_enabled(enabled, compiled)

get_enabled_fpes(enabled) == enabled
disable_all_fpes(enabled) == {}
enable_fpes(enabled, mask) == enabled \cup mask
enable_default_fpes(enabled, compiled) ==
  IF compiled THEN enable_fpes(enabled, exceptions) ELSE enabled

\* the entry sequence with disable_all_fpes left out
ScreamRunFpes_keep(enabled, compiled) ==
  enable_default_fpes(enabled, compiled)

\* scream_init: disable_all_fpes(); initialize_scream_session();
ScreamInitFpes(enabled, compiled) ==
  initialize_scream_session(disable_all_fpes(enabled), compiled)

\* scream_run and scream_finalize: disable_all_fpes(); enable_default_fpes();
ScreamRunFpes(enabled, compiled) ==
  enable_default_fpes(disable_all_fpes(enabled), compiled)

\* the return sequence with disable_all_fpes left out
RestoreFpes_keep(enabled, mask) == enable_fpes(enabled, mask)

\* disable_all_fpes(); enable_fpes(fpe_mask);
RestoreFpes(enabled, mask) == enable_fpes(disable_all_fpes(enabled), mask)

FpeInit ==
  /\ fpe_enabled \in SUBSET AllFpes
  /\ fpe_compiled \in BOOLEAN
  /\ fpe_pc = "caller"
  /\ fpe_mask = {}
  /\ fpe_ad = "none"
  /\ fpe_entry = {}
  /\ fpe_returned = "none"
  /\ ColIdle /\ AbortIdle /\ DrvIdle /\ IopIdle /\ IoIdle /\ SanIdle /\ RmpIdle /\ P3Idle /\ ShocIdle /\ KnlIdle /\ SubIdle /\ QdpIdle /\ GrdIdle /\ MamIdle /\ FrcIdle

\* the legacy model changes the exceptions it traps between two calls
CallerSetsFpes ==
  /\ fpe_pc = "caller"
  /\ \E S \in SUBSET AllFpes :
       /\ S # fpe_enabled
       /\ fpe_enabled' = S
  /\ fpe_returned' = "none"
  /\ UNCHANGED <<fpe_pc, fpe_mask, fpe_ad, fpe_compiled, fpe_entry>>
  /\ FpeFrame

\* entry of fn: save the mask, then the entry sequence; the driver call follows
FpeEnter(fn, entered) ==
  /\ fpe_pc = "caller"
  /\ fpe_mask' = get_enabled_fpes(fpe_enabled)
  /\ fpe_entry' = fpe_enabled
  /\ fpe_enabled' = entered
  /\ fpe_pc' = fn
  /\ fpe_returned' = "none"
  /\ UNCHANGED <<fpe_ad, fpe_compiled>>
  /\ FpeFrame

\* the driver call of fn completes, the mask is restored, fn returns
FpeReturn(fn, ad) ==
  /\ fpe_pc = fn
  /\ fpe_ad' = ad
  /\ fpe_enabled' = RestoreFpes(fpe_enabled, fpe_mask)
  /\ fpe_pc' = "caller"
  /\ fpe_returned' = fn
  /\ UNCHANGED <<fpe_mask, fpe_compiled, fpe_entry>>
  /\ FpeFrame

\* scream_init creates the driver in the context: it is called once
ScreamInitEnter ==
  /\ fpe_ad = "none"
  /\ FpeEnter("scream_init", ScreamInitFpes(fpe_enabled, fpe_compiled))
ScreamInitReturn == FpeReturn("scream_init", "initialized")

\* scream_run and scream_finalize retrieve the driver from the context
ScreamRunEnter ==
  /\ fpe_ad # "none"
  /\ FpeEnter("scream_run", ScreamRunFpes(fpe_enabled, fpe_compiled))
ScreamRunReturn == FpeReturn("scream_run", fpe_ad)

ScreamFinalizeEnter ==
  /\ fpe_ad # "none"
  /\ FpeEnter("scream_finalize", ScreamRunFpes(fpe_enabled, fpe_compiled))
ScreamFinalizeReturn == FpeReturn("scream_finalize", "finalized")

FpeNext ==
  \/ CallerSetsFpes
  \/ ScreamInitEnter
  \/ ScreamInitReturn
  \/ ScreamRunEnter
  \/ ScreamRunReturn
  \/ ScreamFinalizeEnter
  \/ ScreamFinalizeReturn

SpecFpe == FpeInit /\ [][FpeNext]_vars

ScreamFunctions == {"scream_init", "scream_run", "scream_finalize"}

\* C4: each of scream_init, scream_run and scream_finalize returns with the
\* set of enabled floating-point exceptions equal to the set enabled when it
\* was entered, whatever that set was and whatever calls preceded it.
C4_FpeMaskRestored ==
  (fpe_pc = "caller" /\ fpe_returned \in ScreamFunctions)
    => fpe_enabled = fpe_entry

\* scream_finalize has returned, after an init and a run, to a caller that
\* traps an exception scream does not, in a build where scream traps its own
C4_Witness ==
  /\ fpe_pc = "caller"
  /\ fpe_returned = "scream_finalize"
  /\ fpe_ad = "finalized"
  /\ fpe_compiled
  /\ fpe_enabled = {"INEXACT", "UNDERFLOW"}

\* C5 (as stated): while the body of scream_init, scream_run or
\* scream_finalize executes, no floating-point exception is enabled.
C5_NoFpeDuringBody ==
  fpe_pc \in ScreamFunctions => fpe_enabled = {}

\* C5 (amended): while the body executes, the enabled set does not depend on
\* the caller's mask: it is what the entry sequence enabled after disabling
\* everything, i.e. the session's four exceptions in scream_init and scream's
\* three default exceptions in scream_run and scream_finalize when trapping is
\* compiled in, and nothing otherwise.
C5_OnlyScreamFpesDuringBody ==
  fpe_pc \in ScreamFunctions =>
    fpe_enabled =
      IF ~fpe_compiled THEN {}
      ELSE IF fpe_pc = "scream_init"
           THEN {"INVALID", "DIV_ZERO", "OVERFLOW", "UNDERFLOW"}
           ELSE {"INVALID", "DIV_ZERO", "OVERFLOW"}

\* scream_run is executing its driver call, entered from a caller trapping
\* only INEXACT, in a build with trapping compiled in
C5_Witness ==
  /\ fpe_pc = "scream_run"
  /\ fpe_compiled
  /\ fpe_entry = {"INEXACT"}
  /\ fpe_enabled = exceptions

(***************************************************************************)
(* error::runtime_check and error::runtime_abort.                          *)
(***************************************************************************)
MaxCode == 3

Messages == {"alpha!=1.0 would be discarded", "beta!=0.0 would be discarded"}

\* std::cerr << message << std::endl << "Exiting..." << std::endl;
runtime_abort_message(stderr, message) == stderr \o <<message, "Exiting...">>

\* finalize_scream_session()
finalize_scream_session(session) == "finalized"

\* MPI_Initialized(&flag)
MPI_Initialized(mpi) == IF mpi THEN 1 ELSE 0

\* termination by a local abort whatever the flag
runtime_abort_exit_local(flag, code) == <<"std::abort">>

\* if (flag!=0) MPI_Abort(MPI_COMM_WORLD, code); else std::abort();
runtime_abort_exit(flag, code) ==
  IF flag # 0 THEN <<"MPI_Abort", "MPI_COMM_WORLD", code>> ELSE <<"std::abort">>

AbortInit ==
  /\ abort_in = [cond |-> TRUE, message |-> "", code |-> 0, prior |-> <<>>]
  /\ abort_mpi \in BOOLEAN
  /\ abort_pc = "idle"
  /\ abort_stderr \in {<<>>, <<"earlier output">>}
  /\ abort_session = "active"
  /\ abort_exit = <<"running">>
  /\ ColIdle /\ FpeIdle /\ DrvIdle /\ IopIdle /\ IoIdle /\ SanIdle /\ RmpIdle /\ P3Idle /\ ShocIdle /\ KnlIdle /\ SubIdle /\ QdpIdle /\ GrdIdle /\ MamIdle /\ FrcIdle

\* runtime_check(cond, message, code): returns at once if cond holds, else
\* enters runtime_abort
RuntimeCheck ==
  /\ abort_pc \in {"idle", "returned"}
  /\ \E cond \in BOOLEAN, message \in Messages, code \in 0..MaxCode :
       /\ abort_in' = [cond |-> cond, message |-> message, code |-> code,
                       prior |-> abort_stderr]
       /\ abort_pc' = IF cond THEN "returned" ELSE "runtime_abort"
  /\ UNCHANGED <<abort_mpi, abort_stderr, abort_session, abort_exit>>
  /\ AbortFrame

AbortPrint ==
  /\ abort_pc = "runtime_abort"
  /\ abort_stderr' = runtime_abort_message(abort_stderr, abort_in.message)
  /\ abort_pc' = "printed"
  /\ UNCHANGED <<abort_in, abort_mpi, abort_session, abort_exit>>
  /\ AbortFrame

AbortFinalizeSession ==
  /\ abort_pc = "printed"
  /\ abort_session' = finalize_scream_session(abort_session)
  /\ abort_pc' = "finalized"
  /\ UNCHANGED <<abort_in, abort_mpi, abort_stderr, abort_exit>>
  /\ AbortFrame

AbortTerminate ==
  /\ abort_pc = "finalized"
  /\ abort_exit' = runtime_abort_exit(MPI_Initialized(abort_mpi), abort_in.code)
  /\ abort_pc' = "terminated"
  /\ UNCHANGED <<abort_in, abort_mpi, abort_stderr, abort_session>>
  /\ AbortFrame

AbortNext ==
  \/ RuntimeCheck
  \/ AbortPrint
  \/ AbortFinalizeSession
  \/ AbortTerminate

SpecAbort == AbortInit /\ [][AbortNext]_vars

\* C6: runtime_check(cond, message, code) does nothing when cond is true; when
\* cond is false it never returns and performs, in this order: message and
\* then "Exiting..." written to standard error, session torn down, process
\* terminated by MPI_Abort(MPI_COMM_WORLD, code) if MPI is initialized and by
\* a local abort otherwise.
C6_RuntimeCheck ==
  /\ abort_pc = "returned" =>
       /\ abort_in.cond
       /\ abort_stderr = abort_in.prior
       /\ abort_session = "active"
       /\ abort_exit = <<"running">>
  /\ (abort_pc # "idle" /\ ~abort_in.cond) =>
       /\ abort_pc # "returned"
       /\ abort_session = "finalized" =>
            abort_stderr = abort_in.prior \o <<abort_in.message, "Exiting...">>
       /\ abort_exit # <<"running">> =>
            /\ abort_session = "finalized"
            /\ abort_exit = IF abort_mpi
                            THEN <<"MPI_Abort", "MPI_COMM_WORLD", abort_in.code>>
                            ELSE <<"std::abort">>
       /\ abort_pc = "terminated" => abort_exit # <<"running">>

\* a failed check, made after an earlier check had passed, has ended the
\* process through MPI_Abort with a nonzero code
C6_Witness ==
  /\ abort_pc = "terminated"
  /\ abort_mpi
  /\ abort_in.code = 2
  /\ abort_in.prior = <<"earlier output">>
  /\ abort_exit = <<"MPI_Abort", "MPI_COMM_WORLD", 2>>
  /\ abort_session = "finalized"

(***************************************************************************)
(* Atmosphere driver and its process group.  The group runs the entries    *)
(* "Process 0" .. "Process N-1" of its parameter list; drv_cfg.procs lists *)
(* their process names in that order.  The driver and the group are a      *)
(* single host thread: drv_pc is its position ("outside" of run(dt), at    *)
(* the head of the group's loop, or inside the run() of the entry the loop *)
(* is at).                                                                 *)
(***************************************************************************)
MaxSteps == 2
MaxTracers == 4

\* proc_params.set<std::string>("Schedule Type","Sequential");
ScheduleType == "Sequential"

\* processes: the synthetic pair A (writes the marker) and B (reads it), and
\* the macrophysics process
ProcessNames == {"A", "B", "SHOC"}

\* SHOCMacrophysics::set_grids: m_required_fields
SHOC_required_fields ==
  {"pref_mid", "T_atm_mid", "cldfrac_liq", "zi", "zm", "omega",
   "surf_sens_flux", "surf_latent_flux", "surf_u_mom_flux", "surf_v_mom_flux",
   "qv", "host_dx", "host_dy", "p_mid", "pint", "pseudo_density", "phis",
   "s", "tke", "horiz_winds", "sgs_buoy_flux", "eddy_diff_mom", "qc"}

\* SHOCMacrophysics::set_grids: m_computed_fields
SHOC_computed_fields ==
  {"T_atm", "qv", "s", "tke", "horiz_winds", "sgs_buoy_flux", "eddy_diff_mom",
   "qc", "pbl_height"}

Required(name) ==
  CASE name = "A" -> {}
    [] name = "B" -> {"marker"}
    [] name = "SHOC" -> SHOC_required_fields

Computed(name) ==
  CASE name = "A" -> {"marker"}
    [] name = "B" -> {}
    [] name = "SHOC" -> SHOC_computed_fields

\* set_updated_group accepting a group of two
SHOC_set_updated_group_min2(size, name, bundled) ==
  size >= 2 /\ name = "tracers" /\ bundled

\* SHOCMacrophysics::set_updated_group: TRUE iff no EKAT_REQUIRE_MSG fails
SHOC_set_updated_group(size, name, bundled) ==
  size >= 3 /\ name = "tracers" /\ bundled

InGroup(cfg, name) == \E i \in 1..Len(cfg.procs) : cfg.procs[i] = name

\* field resolution at initialization, entry by entry from entry i on:
\* available holds the fields of the initial condition and those the entries
\* before i compute or update; an entry whose Required fields are not all
\* available has no producer (FALSE), otherwise its own Computed fields
\* become available to the entries after it
RECURSIVE resolve_fields(_, _, _)
resolve_fields(cfg, i, available) ==
  IF i > Len(cfg.procs) THEN TRUE
  ELSE IF ~(Required(cfg.procs[i]) \subseteq available) THEN FALSE
  ELSE resolve_fields(cfg, i + 1, available \cup Computed(cfg.procs[i]))

\* the checks of the driver's initialization: TRUE iff one of them is fatal
InitializationFails(cfg) ==
  \/ ~resolve_fields(cfg, 1, cfg.ic)
  \/ /\ InGroup(cfg, "SHOC")
     /\ ~SHOC_set_updated_group(cfg.group_size, cfg.group_name, cfg.group_bundled)

\* groups of two or three distinct processes
Pipelines ==
  {p \in [1..2 -> ProcessNames] \cup [1..3 -> ProcessNames] :
     \A i, j \in DOMAIN p : i # j => p[i] # p[j]}

AllFields == SHOC_required_fields \cup SHOC_computed_fields \cup {"marker"}

\* a loop over the group that starts from its last entry
run_sequential_entry_backwards(k, n) == n + 1 - k

\* the entry of the group that iteration k of the Sequential loop runs, for
\* a group of n entries: the entries are taken in declared order
run_sequential_entry(k, n) == k

DriverInit ==
  /\ drv_cfg \in [procs : Pipelines,
                  schedule : {ScheduleType},
                  ic : {AllFields \ S : S \in SUBSET {"marker", "qv", "p_mid"}},
                  group_size : 0..MaxTracers,
                  group_name : {"tracers", "aerosols"},
                  group_bundled : BOOLEAN]
  /\ drv_state = "created"
  /\ drv_pc = "outside"
  /\ drv_next = 1
  /\ drv_proc = [i \in DOMAIN drv_cfg.procs |-> "idle"]
  /\ drv_count = [i \in DOMAIN drv_cfg.procs |-> 0]
  /\ drv_steps = 0
  /\ drv_marker = 0
  /\ drv_read = 0
  /\ drv_ran = FALSE
  /\ ColIdle /\ FpeIdle /\ AbortIdle /\ IopIdle /\ IoIdle /\ SanIdle /\ RmpIdle /\ P3Idle /\ ShocIdle /\ KnlIdle /\ SubIdle /\ QdpIdle /\ GrdIdle /\ MamIdle /\ FrcIdle

\* AtmosphereDriver::initialize: creates the group, resolves the fields and
\* hands the tracer group to its consumer; a failed check is fatal
DriverInitialize ==
  /\ drv_state = "created"
  /\ drv_state' = IF InitializationFails(drv_cfg) THEN "aborted" ELSE "initialized"
  /\ UNCHANGED <<drv_cfg, drv_pc, drv_next, drv_proc, drv_count, drv_steps,
                 drv_marker, drv_read, drv_ran>>
  /\ DrvFrame

\* AtmosphereDriver::run(dt) is called: the group's loop starts a host step
DriverRunBegin ==
  /\ drv_state = "initialized"
  /\ drv_pc = "outside"
  /\ drv_steps < MaxSteps
  /\ drv_pc' = "loop"
  /\ drv_next' = 1
  /\ drv_proc' = [i \in DOMAIN drv_cfg.procs |-> "idle"]
  /\ drv_count' = [i \in DOMAIN drv_cfg.procs |-> 0]
  /\ UNCHANGED <<drv_cfg, drv_state, drv_steps, drv_marker, drv_read, drv_ran>>
  /\ DrvFrame

\* the loop calls run() of the entry of its current iteration; a process
\* requiring the marker reads it at the start of its run
ProcessRunBegin ==
  LET i == run_sequential_entry(drv_next, Len(drv_cfg.procs))
  IN  /\ drv_pc = "loop"
      /\ drv_next <= Len(drv_cfg.procs)
      /\ drv_pc' = "run"
      /\ drv_proc' = [drv_proc EXCEPT ![i] = "running"]
      /\ drv_read' = IF "marker" \in Required(drv_cfg.procs[i])
                     THEN drv_marker ELSE drv_read
      /\ drv_ran' = TRUE
      /\ UNCHANGED <<drv_cfg, drv_state, drv_next, drv_count, drv_steps,
                     drv_marker>>
      /\ DrvFrame

\* that run() returns, having written what the process computes, and the
\* loop moves to its next iteration
ProcessRunEnd ==
  LET i == run_sequential_entry(drv_next, Len(drv_cfg.procs))
  IN  /\ drv_pc = "run"
      /\ drv_pc' = "loop"
      /\ drv_proc' = [drv_proc EXCEPT ![i] = "done"]
      /\ drv_count' = [drv_count EXCEPT ![i] = @ + 1]
      /\ drv_next' = drv_next + 1
      /\ drv_marker' = IF "marker" \in Computed(drv_cfg.procs[i])
                       THEN drv_steps + 1 ELSE drv_marker
      /\ UNCHANGED <<drv_cfg, drv_state, drv_steps, drv_read, drv_ran>>
      /\ DrvFrame

\* the loop has gone through its entries: run(dt) returns
DriverRunEnd ==
  /\ drv_pc = "loop"
  /\ drv_next > Len(drv_cfg.procs)
  /\ drv_pc' = "outside"
  /\ drv_steps' = drv_steps + 1
  /\ UNCHANGED <<drv_cfg, drv_state, drv_next, drv_proc, drv_count, drv_marker,
                 drv_read, drv_ran>>
  /\ DrvFrame

DriverFinalize ==
  /\ drv_state = "initialized"
  /\ drv_pc = "outside"
  /\ drv_state' = "finalized"
  /\ UNCHANGED <<drv_cfg, drv_pc, drv_next, drv_proc, drv_count, drv_steps,
                 drv_marker, drv_read, drv_ran>>
  /\ DrvFrame

DriverNext ==
  \/ DriverInitialize
  \/ DriverRunBegin
  \/ ProcessRunBegin
  \/ ProcessRunEnd
  \/ DriverRunEnd
  \/ DriverFinalize

SpecDriver == DriverInit /\ [][DriverNext]_vars

MissingProducer(cfg) ==
  \E i \in 1..Len(cfg.procs) :
    \E f \in Required(cfg.procs[i]) :
      /\ f \notin cfg.ic
      /\ \A j \in 1..(i - 1) : f \notin Computed(cfg.procs[j])

\* a configuration the driver must reject
BadConfig(cfg) ==
  \/ MissingProducer(cfg)
  \/ InGroup(cfg, "SHOC") /\ cfg.group_size < 3

NGP == 2

SlotNames ==
  {"pnh", "rstar", "hydro_p_int", "pmid", "pint", "pdel",
   "omega_int", "delta_u", "delta_v", "delta_T", "delta_Q"}

NoSlots == [n \in SlotNames |-> 0]

\* Workspace take/release of the slots named in slots (name -> how many)
AddSlots(count, slots) == [n \in SlotNames |-> count[n] + slots[n]]

\* ws.take_macro_block("pnh", NGP*NGP); ws.take_macro_block("rstar", NGP*NGP);
compute_t_and_exner_takes ==
  [NoSlots EXCEPT !["pnh"] = NGP * NGP, !["rstar"] = NGP * NGP]

\* ws.release_macro_block(rstar_slot, NGP*NGP); ws.release_macro_block(pnh_slot, NGP*NGP);
compute_t_and_exner_releases ==
  [NoSlots EXCEPT !["rstar"] = NGP * NGP, !["pnh"] = NGP * NGP]

\* auto hydro_p_int = ws.take("hydro_p_int"); ... ws.release(hydro_p_int);
hydro_p_int_slot == [NoSlots EXCEPT !["hydro_p_int"] = 1]

\* ws.take_many_contiguous_unsafe<3>({"pmid", "pint", "pdel"}, ...) and
\* ws.release_many_contiguous<3>({&pmid, &pint, &pdel})
apply_iop_forcing_slots ==
  [NoSlots EXCEPT !["pmid"] = 1, !["pint"] = 1, !["pdel"] = 1]

\* advance_iop_subsidence: take_many_contiguous_unsafe<4>; take_macro_block("delta_Q", n_q_tracers)
advance_iop_subsidence_takes(n_q_tracers) ==
  [NoSlots EXCEPT !["omega_int"] = 1, !["delta_u"] = 1, !["delta_v"] = 1,
                  !["delta_T"] = 1, !["delta_Q"] = n_q_tracers]

\* the releases of advance_iop_subsidence with release_macro_block left out
advance_iop_subsidence_releases_no_delta_Q(n_q_tracers) ==
  [NoSlots EXCEPT !["omega_int"] = 1, !["delta_u"] = 1, !["delta_v"] = 1,
                  !["delta_T"] = 1]

\* advance_iop_subsidence: release_macro_block(delta_Q_slot, n_q_tracers);
\* release_many_contiguous<4>
advance_iop_subsidence_releases(n_q_tracers) ==
  [NoSlots EXCEPT !["delta_Q"] = n_q_tracers, !["omega_int"] = 1,
                  !["delta_u"] = 1, !["delta_v"] = 1, !["delta_T"] = 1]

\* ws.take_macro_block("rstar", NGP*NGP) and its release
compute_qdp_and_vtheta_dp_slots == [NoSlots EXCEPT !["rstar"] = NGP * NGP]

IopInit ==
  /\ iop_cfg \in [theta_hydrostatic_mode : BOOLEAN,
                  iop_dosubsidence : BOOLEAN,
                  n_q_tracers : 1..MaxTracers]
  /\ iop_pc = "idle"
  /\ iop_idx = [idx \in 0..(NGP * NGP - 1) |-> "pending"]
  /\ iop_taken = NoSlots
  /\ iop_released = NoSlots
  /\ ColIdle /\ FpeIdle /\ AbortIdle /\ DrvIdle /\ IoIdle /\ SanIdle /\ RmpIdle /\ P3Idle /\ ShocIdle /\ KnlIdle /\ SubIdle /\ QdpIdle /\ GrdIdle /\ MamIdle /\ FrcIdle

IopStep(from, to, takes, releases) ==
  /\ iop_pc = from
  /\ iop_pc' = to
  /\ iop_taken' = AddSlots(iop_taken, takes)
  /\ iop_released' = AddSlots(iop_released, releases)
  /\ UNCHANGED <<iop_cfg, iop_idx>>
  /\ IopFrame

\* kernel compute_t_and_exner: the team takes its two blocks
TExnerTake ==
  IopStep("idle", "t_and_exner_loop", compute_t_and_exner_takes, NoSlots)

\* iteration idx of the TeamThreadRange: in hydrostatic mode it takes
\* hydro_p_int, otherwise it takes nothing and completes
TExnerIdxBegin(idx) ==
  /\ iop_pc = "t_and_exner_loop"
  /\ iop_idx[idx] = "pending"
  /\ IF iop_cfg.theta_hydrostatic_mode
     THEN /\ iop_taken' = AddSlots(iop_taken, hydro_p_int_slot)
          /\ iop_idx' = [iop_idx EXCEPT ![idx] = "hydro_p_int"]
     ELSE /\ iop_taken' = iop_taken
          /\ iop_idx' = [iop_idx EXCEPT ![idx] = "done"]
  /\ UNCHANGED <<iop_cfg, iop_pc, iop_released>>
  /\ IopFrame

TExnerIdxRelease(idx) ==
  /\ iop_pc = "t_and_exner_loop"
  /\ iop_idx[idx] = "hydro_p_int"
  /\ iop_released' = AddSlots(iop_released, hydro_p_int_slot)
  /\ iop_idx' = [iop_idx EXCEPT ![idx] = "done"]
  /\ UNCHANGED <<iop_cfg, iop_pc, iop_taken>>
  /\ IopFrame

\* every iteration has completed: the blocks are released, the kernel ends
TExnerRelease ==
  /\ \A idx \in DOMAIN iop_idx : iop_idx[idx] = "done"
  /\ IopStep("t_and_exner_loop", "t_and_exner_complete",
             NoSlots, compute_t_and_exner_releases)

\* kernel apply_iop_forcing (after the fence)
ForcingTake ==
  IopStep("t_and_exner_complete", "forcing_taken", apply_iop_forcing_slots, NoSlots)

SubsidenceTake ==
  /\ iop_cfg.iop_dosubsidence
  /\ IopStep("forcing_taken", "subsidence_taken",
             advance_iop_subsidence_takes(iop_cfg.n_q_tracers), NoSlots)

SubsidenceRelease ==
  IopStep("subsidence_taken", "forcing_advance",
          NoSlots, advance_iop_subsidence_releases(iop_cfg.n_q_tracers))

SubsidenceSkipped ==
  /\ ~iop_cfg.iop_dosubsidence
  /\ IopStep("forcing_taken", "forcing_advance", NoSlots, NoSlots)

ForcingRelease ==
  IopStep("forcing_advance", "forcing_complete", NoSlots, apply_iop_forcing_slots)

\* kernel compute_qdp_and_vtheta_dp (after the fence)
QdpTake ==
  IopStep("forcing_complete", "qdp_taken", compute_qdp_and_vtheta_dp_slots, NoSlots)

QdpRelease ==
  IopStep("qdp_taken", "qdp_complete", NoSlots, compute_qdp_and_vtheta_dp_slots)

IopNext ==
  \/ TExnerTake
  \/ \E idx \in DOMAIN iop_idx : TExnerIdxBegin(idx)
  \/ \E idx \in DOMAIN iop_idx : TExnerIdxRelease(idx)
  \/ TExnerRelease
  \/ ForcingTake
  \/ SubsidenceTake
  \/ SubsidenceRelease
  \/ SubsidenceSkipped
  \/ ForcingRelease
  \/ QdpTake
  \/ QdpRelease

SpecIop == IopInit /\ [][IopNext]_vars

KernelComplete ==
  iop_pc \in {"t_and_exner_complete", "forcing_complete", "qdp_complete"}

\* C3: in a team's invocation of each of the three kernels (and of
\* advance_iop_subsidence inside the second), every slot taken is released
\* exactly once before the invocation ends, hydrostatic or not, subsidence
\* enabled or not: nothing is released that is not held, and nothing is held
\* when a kernel completes.
C3_TakeReleaseBalanced ==
  /\ \A n \in SlotNames : iop_released[n] <= iop_taken[n]
  /\ KernelComplete => \A n \in SlotNames : iop_released[n] = iop_taken[n]

\* the second kernel has completed in hydrostatic mode with subsidence on and
\* several tracers: hydro_p_int was taken once per iteration and delta_Q as a
\* macro block
C3_Witness ==
  /\ iop_pc = "forcing_complete"
  /\ iop_cfg.theta_hydrostatic_mode
  /\ iop_cfg.iop_dosubsidence
  /\ iop_cfg.n_q_tracers = 2
  /\ iop_taken["hydro_p_int"] = NGP * NGP
  /\ iop_taken["delta_Q"] = 2

(***************************************************************************)
(* Output manager test (input_output_basic).  Four output streams           *)
(* (Instant, Average, Max, Min) are written every max_steps steps.  The     *)
(* initial field values, the step loop and the checks are those of the      *)
(* test.  The OutputManager is not among the sources and does what the      *)
(* specification says of it: run accumulates the field (direct copy for     *)
(* Instant, running sum and count for Average, running comparison for Max   *)
(* and Min) and writes when the cadence elapses.  One field entry is        *)
(* followed.                                                                *)
(***************************************************************************)
\* Int max_steps = 10, which is also the output cadence
max_steps == 10
num_cols == 2
num_levs == 3

RLt(a, b) == Unsigned(a)[1] * Unsigned(b)[2] < Unsigned(b)[1] * Unsigned(a)[2]
RAbs(a) == <<Abs(a[1]), Unsigned(a)[2]>>
RMin(a, b) == IF RLt(b, a) THEN b ELSE a
RMax(a, b) == IF RLt(a, b) THEN b ELSE a

RECURSIVE RSum(_)
RSum(seq) == IF seq = <<>> THEN Zero ELSE RAdd(Head(seq), RSum(Tail(seq)))

\* the entries of field_1(ii), field_2(jj), field_3(ii,jj)
FieldEntries ==
  {<<"field_1", ii, 0>> : ii \in 0..(num_cols - 1)}
    \cup {<<"field_2", 0, jj>> : jj \in 0..(num_levs - 1)}
    \cup {<<"field_3", ii, jj>> : ii \in 0..(num_cols - 1), jj \in 0..(num_levs - 1)}

\* get_test_repo: f1(ii) = ii, f2(jj) = (jj+1)/10, f3(ii,jj) = ii + (jj+1)/10
InitialValue(entry) ==
  CASE entry[1] = "field_1" -> Real(entry[2])
    [] entry[1] = "field_2" -> Norm(entry[3] + 1, 10)
    [] entry[1] = "field_3" -> RAdd(Real(entry[2]), Norm(entry[3] + 1, 10))

\* the loop body's f_host(jj) += dt
StepField(value, dt) == RAdd(value, dt)

\* OutputManager::init: nothing has been sampled.  What the running
\* comparisons of Max and Min start from is either of two things: the first
\* value sampled by run (from_init = FALSE), or the value the field holds at
\* init (from_init = TRUE), which is the start under which the Min the test
\* requires, the value before the first step, is what run leaves
OutputManager_init(value, from_init) ==
  [Instant |-> Zero, Sum |-> Zero,
   Max |-> IF from_init THEN value ELSE Zero,
   Min |-> IF from_init THEN value ELSE Zero,
   Count |-> 0, FromInit |-> from_init]

\* OutputManager::run: direct copy for Instant, running sum and count for
\* Average, running comparison for Max and Min among the values sampled
OutputManager_run(acc, value) ==
  [Instant |-> value,
   Sum |-> RAdd(acc.Sum, value),
   Max |-> IF acc.Count = 0 /\ ~acc.FromInit
             THEN value ELSE RMax(acc.Max, value),
   Min |-> IF acc.Count = 0 /\ ~acc.FromInit
             THEN value ELSE RMin(acc.Min, value),
   Count |-> acc.Count + 1, FromInit |-> acc.FromInit]

\* what is written when the cadence has elapsed
OutputManager_write(acc) ==
  [Instant |-> acc.Instant,
   Average |-> RDiv(acc.Sum, Real(acc.Count)),
   Max |-> acc.Max,
   Min |-> acc.Min]

\* Real tol = pow(10,-6)
tol == <<1, 1000000>>

\* the value each check of the test compares the field read back with:
\* max_steps*dt + x0, (max_steps+1)/2.0*dt + x0, max_steps*dt + x0, x0
Expected(type, x0, dt) ==
  CASE type = "Instant" -> RAdd(RMul(Real(max_steps), dt), x0)
    [] type = "Average" -> RAdd(RMul(Norm(max_steps + 1, 2), dt), x0)
    [] type = "Max" -> RAdd(RMul(Real(max_steps), dt), x0)
    [] type = "Min" -> x0

\* REQUIRE(std::abs(f - expected) < tol); the Max check of field_2 is written
\* REQUIRE(std::abs(f - expected < tol))
Require(type, entry, value, expected) ==
  IF type = "Max" /\ entry[1] = "field_2"
    THEN RLt(RSub(value, expected), tol)
    ELSE RLt(RAbs(RSub(value, expected)), tol)

\* where the test stands after the checks of a stream: past them, or ended
\* by the REQUIRE that failed
IoPassed(type) ==
  CASE type = "Instant" -> "checked Instant"
    [] type = "Average" -> "checked Average"
    [] type = "Max" -> "checked Max"
    [] type = "Min" -> "checked Min"

IoFailed(type) ==
  CASE type = "Instant" -> "failed Instant"
    [] type = "Average" -> "failed Average"
    [] type = "Max" -> "failed Max"
    [] type = "Min" -> "failed Min"

IoInit ==
  /\ \E entry \in FieldEntries, from_init \in BOOLEAN :
       /\ io_cfg = [entry |-> entry, x0 |-> InitialValue(entry), dt |-> One,
                    from_init |-> from_init]
       /\ io_field = InitialValue(entry)
       /\ io_acc = OutputManager_init(InitialValue(entry), from_init)
  /\ io_samples = <<>>
  /\ io_file = <<>>
  /\ io_pc = "running"
  /\ ColIdle /\ FpeIdle /\ AbortIdle /\ DrvIdle /\ IopIdle /\ SanIdle /\ RmpIdle /\ P3Idle /\ ShocIdle /\ KnlIdle /\ SubIdle /\ QdpIdle /\ GrdIdle /\ MamIdle /\ FrcIdle

\* one iteration of the step loop: every output field += dt; time += dt;
\* m_output_manager.run(time), which writes when max_steps steps have elapsed
IoStep ==
  /\ io_pc = "running"
  /\ Len(io_samples) < max_steps
  /\ LET value == StepField(io_field, io_cfg.dt)
         acc == OutputManager_run(io_acc, value)
     IN  /\ io_field' = value
         /\ io_acc' = acc
         /\ io_samples' = Append(io_samples, value)
         /\ io_file' = IF acc.Count = max_steps
                         THEN OutputManager_write(acc) ELSE io_file
  /\ UNCHANGED <<io_cfg, io_pc>>
  /\ IoFrame

\* m_output_manager.finalize() after the loop
IoFinalize ==
  /\ io_pc = "running"
  /\ Len(io_samples) = max_steps
  /\ io_pc' = "finalized"
  /\ UNCHANGED <<io_cfg, io_field, io_acc, io_samples, io_file>>
  /\ IoFrame

\* <type>_input.pull_input(), which overwrites the field with the file's
\* data, and the REQUIREs on the field read back
IoCheck(prev, type) ==
  /\ io_pc = prev
  /\ io_field' = io_file[type]
  /\ io_pc' = IF Require(type, io_cfg.entry, io_file[type],
                         Expected(type, io_cfg.x0, io_cfg.dt))
                THEN IoPassed(type) ELSE IoFailed(type)
  /\ UNCHANGED <<io_cfg, io_acc, io_samples, io_file>>
  /\ IoFrame

IoNext ==
  \/ IoStep
  \/ IoFinalize
  \/ IoCheck("finalized", "Instant")
  \/ IoCheck("checked Instant", "Average")
  \/ IoCheck("checked Average", "Max")
  \/ IoCheck("checked Max", "Min")

SpecIo == IoInit /\ [][IoNext]_vars

\* strictly increasing samples, once per run call
SamplesIncrease ==
  \A i \in 1..(Len(io_samples) - 1) : RLt(io_samples[i], io_samples[i + 1])

\* the written output is what the claim says: Average the arithmetic mean of
\* the N sampled values, Instant and Max the final sampled value, Min the
\* first sampled value
IoOutputAsClaimed ==
  /\ io_file.Average = RDiv(RSum(io_samples), Real(Len(io_samples)))
  /\ io_file.Instant = io_samples[Len(io_samples)]
  /\ io_file.Max = io_samples[Len(io_samples)]
  /\ io_file.Min = io_samples[1]

C11_MinCheckRejectsFirstSample ==
  /\ (io_file # <<>> /\ SamplesIncrease) =>
       /\ io_file.Average = RDiv(RSum(io_samples), Real(Len(io_samples)))
       /\ io_file.Instant = io_samples[Len(io_samples)]
       /\ io_file.Max = io_samples[Len(io_samples)]
       /\ io_file.Min = IF io_cfg.from_init THEN io_cfg.x0 ELSE io_samples[1]
       /\ RLt(io_cfg.x0, io_samples[1])
  /\ io_pc \notin {IoFailed("Instant"), IoFailed("Average"), IoFailed("Max")}
  /\ io_pc = IoFailed("Min") <=>
       (io_file # <<>> /\ io_field = io_file.Min /\ ~io_cfg.from_init)
  /\ io_pc = IoPassed("Min") <=>
       (io_file # <<>> /\ io_field = io_file.Min /\ io_cfg.from_init)

(***************************************************************************)
(* Combine-mode sanity check.  Every averaging and delta operator begins   *)
(* with                                                                     *)
(*   #ifndef NDEBUG                                                         *)
(*     sanity_check<CM>(alpha,beta);                                        *)
(*   #endif                                                                 *)
(* so the two runtime_check calls are made only in a build without NDEBUG. *)
(* A call is made with any combine mode and any alpha, beta.                *)
(***************************************************************************)
\* the runtime_check of sanity_check that fails first: alpha's, then beta's
sanity_check_error(CM, alpha, beta) ==
  IF ~(needsAlpha(CM) \/ alpha = One) THEN "alpha discarded"
  ELSE IF ~(needsBeta(CM) \/ IsZero(beta)) THEN "beta discarded"
  ELSE "none"

SanityInit ==
  /\ col_in \in {c \in ColInputs(Vals, ConstCols(Interfaces, Vals),
                                ConstCols(Levels, Vals), {One},
                                CombineModes, {"Zero"}, {Zero},
                                Vals, Vals \cup {NZero}, {Zero}, {One}, {FALSE}) :
                   c.x_m \in ConstCols(Levels, Vals)}
  /\ col_out = PriorViews
  /\ col_ran = [path \in Paths |-> "none"]
  /\ col_ndebug \in BOOLEAN
  /\ col_fatal = [path \in Paths |-> "none"]
  /\ FpeIdle /\ AbortIdle /\ DrvIdle /\ IopIdle /\ IoIdle /\ RmpIdle /\ P3Idle /\ ShocIdle /\ KnlIdle /\ SubIdle /\ QdpIdle /\ GrdIdle /\ MamIdle /\ FrcIdle

\* a call of operator op, which would leave the views out: the check first
\* (if compiled in), then the operator's body
CheckedCall(path, op, out) ==
  /\ col_ran[path] = "none"
  /\ col_ran' = [col_ran EXCEPT ![path] = op]
  /\ IF ~col_ndebug /\ ~sanity_check(col_in.CM, col_in.alpha, col_in.beta)
       THEN /\ col_fatal' = [col_fatal EXCEPT ![path] =
                 sanity_check_error(col_in.CM, col_in.alpha, col_in.beta)]
            /\ UNCHANGED col_out
       ELSE /\ col_out' = [col_out EXCEPT ![path] = out]
            /\ UNCHANGED col_fatal
  /\ UNCHANGED <<col_in, col_ndebug>>
  /\ SanFrame

CheckedMidpointValues(path) ==
  CheckedCall(path, "compute_midpoint_values",
    [col_out[path] EXCEPT !.mid =
       compute_midpoint_values(OnGpu(path), VS(path), col_in.CM,
         IntView(path, col_in.prior_i), col_out[path].mid,
         col_in.alpha, col_in.beta)])

CheckedInterfaceValues(path) ==
  CheckedCall(path, "compute_interface_values",
    [col_out[path] EXCEPT !.int =
       compute_interface_values(OnGpu(path), VS(path), col_in.CM,
         MidView(path, col_in.x_m), col_out[path].int,
         col_in.alpha, col_in.beta)])

CheckedInterfaceDelta(path) ==
  CheckedCall(path, "compute_interface_delta",
    [col_out[path] EXCEPT !.int =
       compute_interface_delta(OnGpu(path), VS(path), col_in.CM, col_in.bcType,
         MidView(path, col_in.x_m), col_out[path].int,
         col_in.bcVal, col_in.alpha, col_in.beta)])

SanityNext ==
  \/ \E path \in Paths : CheckedMidpointValues(path)
  \/ \E path \in Paths : CheckedInterfaceValues(path)
  \/ \E path \in Paths : CheckedInterfaceDelta(path)

SpecSanity == SanityInit /\ [][SanityNext]_vars

\* alpha != 1 under a mode that ignores alpha, or beta != 0 under a mode that
\* ignores beta
InvalidCombination ==
  \/ col_in.CM \in {"Replace", "Update", "Add", "ProdUpdate"}
       /\ col_in.alpha # One
  \/ col_in.CM \in {"Replace", "Scale", "ScaleAdd", "Add", "ProdUpdate"}
       /\ ~IsZero(col_in.beta)

\* C12 as stated: a call of an averaging or delta operator with an invalid
\* combine-mode/alpha/beta combination ends in a fatal error at that call,
\* before any output entry is written.
C12_InvalidAlwaysFatal ==
  \A path \in Paths :
    (col_ran[path] # "none" /\ InvalidCombination) =>
      /\ col_fatal[path] # "none"
      /\ col_out[path] = PriorViews[path]

\* C12, amended: in a build without NDEBUG such a call ends in a fatal error
\* (alpha's message first) before any output entry is written, and a valid
\* call never does; in a build with NDEBUG the check is compiled out and no
\* call ends in a fatal error.
C12_InvalidFatalInDebugBuild ==
  \A path \in Paths :
    col_ran[path] # "none" =>
      /\ (~col_ndebug /\ InvalidCombination) =>
           /\ col_fatal[path] =
                sanity_check_error(col_in.CM, col_in.alpha, col_in.beta)
           /\ col_fatal[path] # "none"
           /\ col_out[path] = PriorViews[path]
      /\ (col_ndebug \/ ~InvalidCombination) => col_fatal[path] = "none"

\* a debug build has refused compute_interface_values under Replace with
\* alpha = 0 on the wide-vector path: the interface view still holds its
\* prior zeros, where the operator would have written ones
C12_Witness ==
  /\ ~col_ndebug
  /\ col_in.CM = "Replace" /\ col_in.alpha = Zero /\ col_in.beta = Zero
  /\ col_ran["host"] = "compute_interface_values"
  /\ col_fatal["host"] = "alpha discarded"
  /\ col_out["host"] = PriorViews["host"]
  /\ col_in.x_m = [k \in Levels |-> One]
  /\ col_in.prior_i = [k \in Interfaces |-> Zero]

(***************************************************************************)
(* Remap state adapter (RemapStateProvider).  The vertical remap asks the  *)
(* provider how many states there are and, for each index below that       *)
(* number, whether the state is intrinsic and which array holds it.        *)
(***************************************************************************)
NUM_TIME_LEVELS == 3

\* int num_states_remap() const { return 5;}
num_states_remap == 5

\* is_intrinsic_state with the velocity branch dropped
is_intrinsic_state_none(istate) == FALSE

\* bool is_intrinsic_state (const int istate)
is_intrinsic_state(istate) == IF istate = 3 \/ istate = 4 THEN TRUE ELSE FALSE

\* get_state(kv, np1, var): the array (and its fixed leading indices) returned
get_state(np1, var) ==
  CASE var = 0 -> <<"m_delta_w">>
    [] var = 1 -> <<"m_delta_phinh">>
    [] var = 2 -> <<"m_vtheta_dp", np1>>
    [] var = 3 -> <<"m_v", np1, 0>>
    [] var = 4 -> <<"m_v", np1, 1>>
    [] OTHER -> <<"Kokkos::abort">>

RemapStates == 0..(num_states_remap - 1)

RemapInit ==
  /\ rmp_np1 \in 0..(NUM_TIME_LEVELS - 1)
  /\ rmp_asked = {}
  /\ rmp_intrinsic = {}
  /\ rmp_view = [istate \in RemapStates |-> <<"none">>]
  /\ ColIdle /\ FpeIdle /\ AbortIdle /\ DrvIdle /\ IopIdle /\ IoIdle /\ SanIdle /\ P3Idle /\ ShocIdle /\ KnlIdle /\ SubIdle /\ QdpIdle /\ GrdIdle /\ MamIdle /\ FrcIdle

RemapIsIntrinsicState(istate) ==
  /\ istate \notin rmp_asked
  /\ rmp_asked' = rmp_asked \cup {istate}
  /\ rmp_intrinsic' = IF is_intrinsic_state(istate)
                        THEN rmp_intrinsic \cup {istate} ELSE rmp_intrinsic
  /\ UNCHANGED <<rmp_np1, rmp_view>>
  /\ RmpFrame

RemapGetState(istate) ==
  /\ rmp_view[istate] = <<"none">>
  /\ rmp_view' = [rmp_view EXCEPT ![istate] = get_state(rmp_np1, istate)]
  /\ UNCHANGED <<rmp_np1, rmp_asked, rmp_intrinsic>>
  /\ RmpFrame

RemapNext ==
  \/ \E istate \in RemapStates : RemapIsIntrinsicState(istate)
  \/ \E istate \in RemapStates : RemapGetState(istate)

SpecRemap == RemapInit /\ [][RemapNext]_vars

\* C13: the adapter reports exactly 5 remappable states, and
\* is_intrinsic_state(i) is true for i in {3,4} and false for i in {0,1,2}:
\* whatever has been asked, the indices reported intrinsic are those of
\* {3,4} that were asked.
C13_IntrinsicStates ==
  /\ DOMAIN rmp_view = 0..4
  /\ rmp_asked \subseteq 0..4
  /\ rmp_intrinsic = rmp_asked \cap {3, 4}

\* all five states have been asked about, and the two horizontal velocity
\* components were the ones reported intrinsic
C13_Witness ==
  /\ rmp_asked = 0..4
  /\ rmp_intrinsic = {3, 4}
  /\ rmp_view[3] = <<"m_v", rmp_np1, 0>>

(***************************************************************************)
(* P3 water conservation (cloud_water_conservation,                        *)
(* rain_water_conservation) as called by TestP3Conservation.  The tests'    *)
(* data and checks are the tests'; the routines apply the ratio             *)
(* available mass / (total sink rate * dt) to every sink when the sinks of  *)
(* the step exceed the available mass, and leave the source rates as they   *)
(* are.  Source rates are zero, as in the tests, so the available mass is   *)
(* the mass of the quantity.                                                *)
(***************************************************************************)
CloudSinks == {"qcaut", "qcacc", "qccol", "qcheti", "qcshd", "qiberg"}
RainSinks == {"qrevp", "qrcol", "qrheti"}
Sinks(routine) == IF routine = "cloud_water_conservation" THEN CloudSinks ELSE RainSinks

\* the source rates of the two records: qcnuc; qcaut, qcacc, qimlt, qcshd
CloudSources == {"qcnuc"}
RainSources == {"qcaut", "qcacc", "qimlt", "qcshd"}

\* what a build fixes for the tests' checks: C::Tol = 10^-TolDigits, whether
\* the unqualified abs of the REQUIREs is int abs(int) or the
\* floating-point overload, and, for int abs(int), whether the conversion of
\* a NaN or an infinity to int (undefined) leaves a value within C::Tol
TestBuilds ==
  {b \in [TolDigits : {7, 14}, abs_int : BOOLEAN, nonfinite_int_small : BOOLEAN] :
     b.nonfinite_int_small => b.abs_int}

\* the record data together with the build's choices
WithBuild(data, build) ==
  [f \in DOMAIN data \cup DOMAIN build |->
     IF f \in DOMAIN build THEN build[f] ELSE data[f]]

\* CloudWaterConservationData cwdc[1]: qc = 1e-5, qcnuc = 0, dt = 1.1,
\* qcaut = 1e-4, qisub = qidep = 1, every other rate 0
CloudWaterConservationData ==
  [routine |-> "cloud_water_conservation",
   mass |-> <<1, 100000>>, dt |-> <<11, 10>>,
   sources |-> [n \in CloudSources |-> Zero],
   rates |-> [n \in CloudSinks |-> IF n = "qcaut" THEN <<1, 10000>> ELSE Zero],
   qisub |-> One, qidep |-> One]

\* RainWaterConservationData rwdc[1]: qr = 1e-5, dt = 1.1, qrevp = 1e-4,
\* every other rate 0
RainWaterConservationData ==
  [routine |-> "rain_water_conservation",
   mass |-> <<1, 100000>>, dt |-> <<11, 10>>,
   sources |-> [n \in RainSources |-> Zero],
   rates |-> [n \in RainSinks |-> IF n = "qrevp" THEN <<1, 10000>> ELSE Zero],
   qisub |-> Zero, qidep |-> Zero]

\* a <= b, false when either is a NaN
RLe(a, b) == a # NaN /\ b # NaN /\ ~RLt(b, a)

RECURSIVE SumRates(_, _)
SumRates(rates, names) ==
  IF names = {} THEN Zero
  ELSE LET n == CHOOSE x \in names : TRUE
       IN  RAdd(rates[n], SumRates(rates, names \ {n}))

TotalSinkRate(rates) == SumRates(rates, DOMAIN rates)

\* the sinks of the step exceed the available mass
SinksExceed(in) == RLt(in.mass, RMul(TotalSinkRate(in.rates), in.dt))

\* the ratio with the step length left out
conservation_ratio_no_dt(in) == RDiv(in.mass, TotalSinkRate(in.rates))

\* available_mass / (total_sink_rate * dt)
conservation_ratio(in) == RDiv(in.mass, RMul(TotalSinkRate(in.rates), in.dt))

\* the conservation routine: every sink times the ratio when the sinks
\* exceed the mass; cloud water hands the remainder 1 - ratio to qisub, qidep
water_conservation(in) ==
  IF SinksExceed(in)
    THEN [rates |-> [n \in DOMAIN in.rates |->
                       RMul(in.rates[n], conservation_ratio(in))],
          sources |-> in.sources,
          qisub |-> RMul(in.qisub, RSub(One, conservation_ratio(in))),
          qidep |-> RMul(in.qidep, RSub(One, conservation_ratio(in)))]
    ELSE [rates |-> in.rates, sources |-> in.sources,
          qisub |-> in.qisub, qidep |-> in.qidep]

\* const auto ratio = cwdc[0].qc/(cwdc[0].qcaut * cwdc[0].dt), and rain's
test_ratio(data, sink) == RDiv(data.mass, RMul(data.rates[sink], data.dt))

\* abs(x) of a REQUIRE for a finite x: int abs(int) converts x to int,
\* dropping the fraction; the floating-point overload is the absolute value
test_abs(build, x) ==
  IF build.abs_int THEN Real(Abs(x[1]) \div Unsigned(x)[2]) ELSE RAbs(x)

\* n * 10^digits <= d, for n >= 0 and d > 0
RECURSIVE LeScaled(_, _, _)
LeScaled(n, d, digits) ==
  IF n = 0 THEN TRUE
  ELSE IF digits = 0 THEN n <= d
  ELSE LeScaled(n, d \div 10, digits - 1)

\* abs(x) <= C::Tol: false of a NaN and of an infinity under the
\* floating-point abs, the build's outcome under int abs(int)
within_Tol(build, x) ==
  IF x[2] <= 0 /\ ~IsZero(x)
    THEN build.abs_int /\ build.nonfinite_int_small
    ELSE LET a == test_abs(build, x) IN LeScaled(a[1], a[2], build.TolDigits)

\* the REQUIREs of cloud_water_conservation_tests_device
CloudRequires(data, out) ==
  LET ratio == test_ratio(data, "qcaut")
  IN  /\ within_Tol(data, RSub(out.rates["qcaut"], RMul(data.rates["qcaut"], ratio)))
      /\ \A n \in CloudSinks \ {"qcaut"} : IsZero(out.rates[n])
      /\ within_Tol(data, RSub(out.qisub, RSub(One, ratio)))
      /\ within_Tol(data, RSub(out.qidep, RSub(One, ratio)))
      /\ RLe(RMul(out.rates["qcaut"], data.dt), data.mass)

\* the REQUIREs of rain_water_conservation_tests_device
RainRequires(data, out) ==
  LET ratio == test_ratio(data, "qrevp")
  IN  /\ \A n \in RainSources : IsZero(out.sources[n])
      /\ within_Tol(data, RSub(out.rates["qrevp"], RMul(data.rates["qrevp"], ratio)))
      /\ RLe(RMul(out.rates["qrevp"], data.dt), data.mass)

\* masses 0, 1/2, 1, ..
P3Masses == {Norm(i, 2) : i \in 0..(MaxVal + 1)}

P3Inputs ==
  {WithBuild(data, build) :
     data \in {CloudWaterConservationData, RainWaterConservationData}
                \cup [routine : {"cloud_water_conservation"}, mass : P3Masses,
                      dt : PosVals, sources : {[n \in CloudSources |-> Zero]},
                      rates : [CloudSinks -> Vals], qisub : {One}, qidep : {One}]
                \cup [routine : {"rain_water_conservation"}, mass : P3Masses,
                      dt : PosVals, sources : {[n \in RainSources |-> Zero]},
                      rates : [RainSinks -> Vals], qisub : {Zero}, qidep : {Zero}],
     build \in TestBuilds}

\* the tests' data in some build
IsTestData(in, data) == \E build \in TestBuilds : in = WithBuild(data, build)

P3Init ==
  /\ p3_in \in P3Inputs
  /\ p3_out = [rates |-> p3_in.rates, sources |-> p3_in.sources,
               qisub |-> p3_in.qisub, qidep |-> p3_in.qidep]
  /\ p3_pc = "call"
  /\ ColIdle /\ FpeIdle /\ AbortIdle /\ DrvIdle /\ IopIdle /\ IoIdle /\ SanIdle /\ RmpIdle /\ ShocIdle /\ KnlIdle /\ SubIdle /\ QdpIdle /\ GrdIdle /\ MamIdle /\ FrcIdle

CloudWaterConservation ==
  /\ p3_pc = "call"
  /\ p3_in.routine = "cloud_water_conservation"
  /\ p3_out' = water_conservation(p3_in)
  /\ p3_pc' = "returned"
  /\ UNCHANGED p3_in
  /\ P3Frame

RainWaterConservation ==
  /\ p3_pc = "call"
  /\ p3_in.routine = "rain_water_conservation"
  /\ p3_out' = water_conservation(p3_in)
  /\ p3_pc' = "returned"
  /\ UNCHANGED p3_in
  /\ P3Frame

P3Next == CloudWaterConservation \/ RainWaterConservation

SpecP3 == P3Init /\ [][P3Next]_vars

RECURSIVE RPow(_, _)
RPow(base, j) ==
  IF j = 0 THEN One
  ELSE IF j < 0 THEN RDiv(One, RPow(base, -j))
  ELSE RMul(base, RPow(base, j - 1))

\* exponents j of the pressures p0 * b^j of a column
PExps == 0..1

\* the j with n = base^j, or -1 when the integer n >= 1 is no power of base
RECURSIVE IntLog(_, _)
IntLog(base, n) ==
  IF n = 1 THEN 0
  ELSE IF base = 1 \/ n % base # 0 THEN -1
  ELSE LET r == IntLog(base, n \div base) IN IF r < 0 THEN -1 ELSE r + 1

\* n = base^j
IsIntPower(base, n, j) == IF base = 1 THEN n = 1 ELSE IntLog(base, n) = j

\* the positive real x is (num/den)^j for an integer j (num > den >= 1,
\* coprime), and that j
IsPower(x, num, den) ==
  \/ IntLog(num, x[1]) >= 0 /\ IsIntPower(den, x[2], IntLog(num, x[1]))
  \/ IntLog(num, x[2]) >= 0 /\ IsIntPower(den, x[1], IntLog(num, x[2]))
Exponent(x, num, den) ==
  IF IntLog(num, x[1]) >= 0 /\ IsIntPower(den, x[2], IntLog(num, x[1]))
    THEN IntLog(num, x[1]) ELSE -IntLog(num, x[2])

\* pow(x, kappa-1), a negative exponent that is no integer: for x = b^j it
\* is (b^kappa / b)^j
pow_kappa_minus_1(x) ==
  IF x = NaN THEN NaN
  ELSE IF x = Unrepresented THEN Unrepresented
  ELSE IF IsInf(x) THEN Zero
  ELSE IF IsZero(x) THEN PInf
  ELSE IF x[1] < 0 THEN NaN
  ELSE IF IsPower(x, 2, 1) THEN RPow(<<3, 4>>, Exponent(x, 2, 1))
  ELSE Unrepresented

\* pow(y, 1.0/(1.0-kappa)), a positive exponent that is no integer: for
\* y = (b / b^kappa)^j it is b^j
pow_1_over_1_minus_kappa(y) ==
  IF y = NaN THEN NaN
  ELSE IF y = Unrepresented THEN Unrepresented
  ELSE IF IsInf(y) THEN PInf
  ELSE IF IsZero(y) THEN Zero
  ELSE IF y[1] < 0 THEN NaN
  ELSE IF IsPower(y, 4, 3) THEN RPow(Two, Exponent(y, 4, 3))
  ELSE Unrepresented

\* pow(x, kappa), a positive exponent that is no integer: for x = b^j it is
\* (b^kappa)^j
pow_kappa(x) ==
  IF x = NaN THEN NaN
  ELSE IF x = Unrepresented THEN Unrepresented
  ELSE IF IsInf(x) THEN PInf
  ELSE IF IsZero(x) THEN Zero
  ELSE IF x[1] < 0 THEN NaN
  ELSE IF IsPower(x, 2, 1) THEN RPow(<<3, 2>>, Exponent(x, 2, 1))
  ELSE Unrepresented

\* floating-point product and quotient
NMul(a, b) == RMul(a, b)
NDiv(a, b) == RDiv(a, b)

\* ColumnOps::compute_midpoint_delta: dx_m(k) = x_i(k+1) - x_i(k)
compute_midpoint_delta(gpu, vs, CM, x_i, dx_m, alpha, beta) ==
  IF gpu
  THEN [ilev \in DOMAIN dx_m |->
          combinePack(CM, PSub(x_i[ilev + 1], x_i[ilev]), dx_m[ilev], alpha, beta)]
  ELSE LET LAST_MID_PACK == LastPack(NUM_PHYSICAL_LEV, vs)
           LAST_MID_PACK_END == LastPackEnd(NUM_PHYSICAL_LEV, vs)
           LAST_INT_PACK == LastPack(NUM_INTERFACE_LEV, vs)
           LAST_INT_PACK_END == LastPackEnd(NUM_INTERFACE_LEV, vs)
           shifted(ilev) ==
             IF ilev < LAST_MID_PACK
             THEN [ShiftLeft(x_i[ilev], vs) EXCEPT ![VECTOR_END(vs)] = x_i[ilev + 1][0]]
             ELSE [ShiftLeft(x_i[ilev], vs) EXCEPT
                     ![LAST_MID_PACK_END] = x_i[LAST_INT_PACK][LAST_INT_PACK_END]]
       IN  [ilev \in DOMAIN dx_m |->
              combinePack(CM, PSub(shifted(ilev), x_i[ilev]), dx_m[ilev], alpha, beta)]

\* compute_phi_i with the integrand missing the factor vtheta_dp
EOS_compute_phi_i_no_vtheta(gpu, vs, Rgas, p0, phis, vtheta_dp, p, phi_i, junk) ==
  LET surface == [phi_i EXCEPT ![LastPack(NUM_INTERFACE_LEV, vs)]
                                 [LastPackEnd(NUM_INTERFACE_LEV, vs)] = phis]
      integrand_provider ==
        [ilev \in DOMAIN p |-> [v \in DOMAIN p[ilev] |->
           IF ilev * vs + v < NUM_PHYSICAL_LEV
             THEN RDiv(RMul(Rgas, pow_kappa_minus_1(RDiv(p[ilev][v], p0))), p0)
             ELSE junk]]
  IN  column_scan_mid_to_int(gpu, vs, FALSE, integrand_provider, surface, junk)

\* EquationOfState::compute_phi_i (one column): phi_i at the surface is phis,
\* then a backward scan of Rgas*vtheta_dp*pow(p/p0,kappa-1)/p0.  What the
\* integrand evaluates to on a padding lane is junk.
EOS_compute_phi_i(gpu, vs, Rgas, p0, phis, vtheta_dp, p, phi_i, junk) ==
  LET surface == [phi_i EXCEPT ![LastPack(NUM_INTERFACE_LEV, vs)]
                                 [LastPackEnd(NUM_INTERFACE_LEV, vs)] = phis]
      integrand_provider ==
        [ilev \in DOMAIN p |-> [v \in DOMAIN p[ilev] |->
           IF ilev * vs + v < NUM_PHYSICAL_LEV
             THEN RDiv(RMul(RMul(Rgas, vtheta_dp[ilev][v]),
                            pow_kappa_minus_1(RDiv(p[ilev][v], p0))), p0)
             ELSE junk]]
  IN  column_scan_mid_to_int(gpu, vs, FALSE, integrand_provider, surface, junk)

\* EquationOfState::compute_pnh_and_exner: the views (pnh, exner) it leaves.
\* The loop is over the NUM_LEV packs, every lane of them.
EOS_compute_pnh_and_exner(gpu, vs, Rgas, p0, vtheta_dp, phi_i, pnh, exner) ==
  LET delta == compute_midpoint_delta(gpu, vs, "Replace", phi_i, exner, One, Zero)
      p_over_exner(ilev, v) ==
        NDiv(NMul(RNeg(Rgas), vtheta_dp[ilev][v]), delta[ilev][v])
      pnh_val(ilev, v) ==
        NMul(pow_1_over_1_minus_kappa(NDiv(p_over_exner(ilev, v), p0)), p0)
  IN  [pnh |-> [ilev \in DOMAIN pnh |-> [v \in DOMAIN pnh[ilev] |->
                  pnh_val(ilev, v)]],
       exner |-> [ilev \in DOMAIN exner |-> [v \in DOMAIN exner[ilev] |->
                  NDiv(pnh_val(ilev, v), p_over_exner(ilev, v))]]]

\* the pressure column of the exponents pexp
PressureColumn(p0, pexp) == [k \in Levels |-> RMul(p0, RPow(Two, pexp[k]))]

EosInit ==
  /\ col_in \in [vs : 1..MaxVectorSize,
                 pad : {One},
                 Rgas : {Two},
                 p0 : {Two},
                 phis : {Zero, One},
                 vtheta_dp : [Levels -> {One, Two}],
                 pexp : [Levels -> PExps],
                 prior_i : ConstCols(Interfaces, {Zero}),
                 prior_m : ConstCols(Levels, {Zero}),
                 theta_hydrostatic_mode : {FALSE}]
  /\ col_out = [path \in Paths |->
       [int |-> PackView(col_in.prior_i, NUM_INTERFACE_LEV, VS(path), col_in.pad),
        mid |-> PackView(col_in.prior_m, NUM_PHYSICAL_LEV, VS(path), col_in.pad),
        exner |-> PackView(col_in.prior_m, NUM_PHYSICAL_LEV, VS(path), col_in.pad)]]
  /\ col_ran = [path \in Paths |-> "none"]
  /\ FpeIdle /\ AbortIdle /\ DrvIdle /\ IopIdle /\ IoIdle /\ SanIdle /\ RmpIdle /\ P3Idle /\ ShocIdle /\ KnlIdle /\ SubIdle /\ QdpIdle /\ GrdIdle /\ MamIdle /\ FrcIdle

\* compute_phi_i(kv, phis, vtheta_dp, p, phi_i)
EosComputePhiI(path) ==
  /\ col_ran[path] = "none"
  /\ col_out' = [col_out EXCEPT ![path].int =
       EOS_compute_phi_i(OnGpu(path), VS(path), col_in.Rgas, col_in.p0,
         col_in.phis, MidView(path, col_in.vtheta_dp),
         MidView(path, PressureColumn(col_in.p0, col_in.pexp)),
         col_out[path].int, col_in.pad)]
  /\ col_ran' = [col_ran EXCEPT ![path] = "compute_phi_i"]
  /\ UNCHANGED col_in
  /\ ColFrame

\* compute_pnh_and_exner(kv, vtheta_dp, phi_i, pnh, exner), non-hydrostatic
EosComputePnhAndExner(path) ==
  /\ col_ran[path] = "compute_phi_i"
  /\ ~col_in.theta_hydrostatic_mode
  /\ LET out == EOS_compute_pnh_and_exner(OnGpu(path), VS(path), col_in.Rgas,
                  col_in.p0, MidView(path, col_in.vtheta_dp), col_out[path].int,
                  col_out[path].mid, col_out[path].exner)
     IN  col_out' = [col_out EXCEPT ![path].mid = out.pnh, ![path].exner = out.exner]
  /\ col_ran' = [col_ran EXCEPT ![path] = "compute_pnh_and_exner"]
  /\ UNCHANGED col_in
  /\ ColFrame

EosNext ==
  \/ \E path \in Paths : EosComputePhiI(path)
  \/ \E path \in Paths : EosComputePnhAndExner(path)

SpecEos == EosInit /\ [][EosNext]_vars

\* C15: if phi_i is produced by compute_phi_i from a midpoint pressure column
\* p and a column vtheta_dp, then compute_pnh_and_exner applied to the same
\* vtheta_dp and that phi_i yields pnh equal to p at every level, on both code
\* paths (exactly, in exact arithmetic).
C15_PnhReproducesP ==
  \A path \in Paths :
    col_ran[path] = "compute_pnh_and_exner" =>
      \A k \in Levels :
        Lvl(col_out[path].mid, VS(path), k) = PressureColumn(col_in.p0, col_in.pexp)[k]

\* the wide-vector path has recomputed pnh for a column whose pressure and
\* vtheta_dp both vary with the level, over a surface geopotential of 1
C15_Witness ==
  /\ col_ran["host"] = "compute_pnh_and_exner"
  /\ col_in.vs = MaxVectorSize
  /\ col_in.phis = One
  /\ col_in.pexp[0] = 0 /\ col_in.pexp[NUM_PHYSICAL_LEV - 1] = 1
  /\ col_in.vtheta_dp[0] = One /\ col_in.vtheta_dp[1] = Two
  /\ Lvl(col_out["host"].mid, VS("host"), NUM_PHYSICAL_LEV - 1) = RMul(col_in.p0, Two)

(***************************************************************************)
(* SHOCMacrophysics::initialize_impl and run_impl: the tracer array.        *)
(* A view is a handle on an allocation; copying a view (as                 *)
(* input_output.qtracers = shoc_preamble.tracers does) makes a second       *)
(* handle on the same allocation.  Kokkos::resize(v, extents) allocates a  *)
(* view of the new extents, copies the common entries and assigns it to v; *)
(* other handles keep referring to the old allocation.  Whether a resize   *)
(* to the extents the view already has allocates is left to the library    *)
(* version.  The contents of the first num_tracers slots of an allocation  *)
(* are named by who wrote them last, and in which call.                    *)
(***************************************************************************)
\* calls of run_impl followed
MaxShocCalls == 3

\* Spack widths (SCREAM_SMALL_PACK_SIZE) of the builds considered
SmallPackSizes == {1, 8}

\* ekat::npack<Spack>(n)
npack(n, pack_size) == (n + pack_size - 1) \div pack_size

\* a resize that leaves the extent as it is
Kokkos_resize_keeps_extent(heap, view, npacks, realloc_same) ==
  [heap |-> heap, view |-> view]

\* Kokkos::resize(view, .., npacks): the heap and the allocation the view
\* refers to afterwards
Kokkos_resize(heap, view, npacks, realloc_same) ==
  IF heap[view].npacks = npacks /\ ~realloc_same
    THEN [heap |-> heap, view |-> view]
    ELSE [heap |-> Append(heap, [npacks |-> npacks, data |-> heap[view].data]),
          view |-> Len(heap) + 1]

ShocInit ==
  /\ shoc_cfg \in [num_tracers : 3..MaxTracers, pack_size : SmallPackSizes,
                   realloc_same : BOOLEAN]
  /\ shoc_pc = "constructed"
  /\ shoc_call = 0
  /\ shoc_heap = <<>>
  /\ shoc_preamble_tracers = 0
  /\ shoc_qtracers = 0
  /\ shoc_seen = <<>>
  /\ ColIdle /\ FpeIdle /\ AbortIdle /\ DrvIdle /\ IopIdle /\ IoIdle /\ SanIdle /\ RmpIdle /\ P3Idle /\ KnlIdle /\ SubIdle /\ QdpIdle /\ GrdIdle /\ MamIdle /\ FrcIdle

\* initialize_impl: view_3d tracers(..., num_tracer_packs) is handed to
\* shoc_preamble.set_variables, and input_output.qtracers =
\* shoc_preamble.tracers
ShocInitializeImpl ==
  /\ shoc_pc = "constructed"
  /\ shoc_heap' = <<[npacks |-> npack(shoc_cfg.num_tracers, shoc_cfg.pack_size),
                     data |-> <<"allocated", 0>>]>>
  /\ shoc_preamble_tracers' = 1
  /\ shoc_qtracers' = 1
  /\ shoc_pc' = "initialized"
  /\ UNCHANGED <<shoc_cfg, shoc_call, shoc_seen>>
  /\ ShocFrame

\* run_impl, up to the fence: the fields are synchronized and the
\* preprocessing kernel writes the tracers into shoc_preamble.tracers
ShocPreamble ==
  /\ shoc_pc \in {"initialized", "returned"}
  /\ shoc_call < MaxShocCalls
  /\ shoc_call' = shoc_call + 1
  /\ shoc_heap' = [shoc_heap EXCEPT ![shoc_preamble_tracers].data =
                     <<"shoc_preamble", shoc_call + 1>>]
  /\ shoc_pc' = "preprocessed"
  /\ UNCHANGED <<shoc_cfg, shoc_preamble_tracers, shoc_qtracers, shoc_seen>>
  /\ ShocFrame

\* Kokkos::resize(input_output.qtracers, .., npack(m_num_tracers+3))
ShocResizeUp ==
  /\ shoc_pc = "preprocessed"
  /\ LET r == Kokkos_resize(shoc_heap, shoc_qtracers,
                npack(shoc_cfg.num_tracers + 3, shoc_cfg.pack_size),
                shoc_cfg.realloc_same)
     IN  shoc_heap' = r.heap /\ shoc_qtracers' = r.view
  /\ shoc_pc' = "padded"
  /\ UNCHANGED <<shoc_cfg, shoc_call, shoc_preamble_tracers, shoc_seen>>
  /\ ShocFrame

\* SHF::shoc_main(.., input_output, ..): reads and updates
\* input_output.qtracers
ShocMain ==
  /\ shoc_pc = "padded"
  /\ shoc_seen' = shoc_heap[shoc_qtracers].data
  /\ shoc_heap' = [shoc_heap EXCEPT ![shoc_qtracers].data = <<"shoc_main", shoc_call>>]
  /\ shoc_pc' = "shoc_main"
  /\ UNCHANGED <<shoc_cfg, shoc_call, shoc_preamble_tracers, shoc_qtracers>>
  /\ ShocFrame

\* Kokkos::resize(input_output.qtracers, .., npack(m_num_tracers)), and the
\* time stamps of the output fields
ShocResizeDown ==
  /\ shoc_pc = "shoc_main"
  /\ LET r == Kokkos_resize(shoc_heap, shoc_qtracers,
                npack(shoc_cfg.num_tracers, shoc_cfg.pack_size),
                shoc_cfg.realloc_same)
     IN  shoc_heap' = r.heap /\ shoc_qtracers' = r.view
  /\ shoc_pc' = "returned"
  /\ UNCHANGED <<shoc_cfg, shoc_call, shoc_preamble_tracers, shoc_seen>>
  /\ ShocFrame

ShocNext ==
  \/ ShocInitializeImpl
  \/ ShocPreamble
  \/ ShocResizeUp
  \/ ShocMain
  \/ ShocResizeDown

SpecShoc == ShocInit /\ [][ShocNext]_vars

\* C16: in every call of run_impl, the first as well as every later one, the
\* tracer array handed to shoc_main (input_output.qtracers) holds, in its
\* first num_tracers slots, the tracer values written by the preprocessing
\* kernel of that same call.
C16_QtracersFromSameCall ==
  shoc_pc \in {"shoc_main", "returned"} =>
    shoc_seen = <<"shoc_preamble", shoc_call>>

(***************************************************************************)
(* apply_iop_forcing, host side: three kernels are launched in sequence,   *)
(* the first two each followed by Kokkos::fence().  A launch hands the      *)
(* kernel's teams to the device and returns; the device starts and          *)
(* finishes the teams handed to it in any order; fence returns when every   *)
(* team handed to the device has finished.  The teams of a kernel are      *)
(* interchangeable, so they are counted.                                    *)
(***************************************************************************)
\* largest number of elements
MaxElems == 3

Kernels == <<"compute_t_and_exner", "apply_iop_forcing", "compute_qdp_and_vtheta_dp">>

\* league size of the kernel's policy: policy_homme has nelem teams,
\* policy_eamxx nelem*NGP*NGP
LeagueSize(k, nelem) == IF k = 2 THEN nelem * NGP * NGP ELSE nelem

\* a fence that returns at once
Kokkos_fence_no_wait(pending, running) == TRUE

\* Kokkos::fence() returns: nothing handed to the device is unfinished
Kokkos_fence(pending, running) ==
  \A k \in 1..Len(Kernels) : pending[k] = 0 /\ running[k] = 0

FenceInit ==
  /\ knl_nelem \in 1..MaxElems
  /\ knl_host = <<"launch", 1>>
  /\ knl_pending = [k \in 1..Len(Kernels) |-> 0]
  /\ knl_running = [k \in 1..Len(Kernels) |-> 0]
  /\ knl_done = [k \in 1..Len(Kernels) |-> 0]
  /\ ColIdle /\ FpeIdle /\ AbortIdle /\ DrvIdle /\ IopIdle /\ IoIdle /\ SanIdle /\ RmpIdle /\ P3Idle /\ ShocIdle /\ SubIdle /\ QdpIdle /\ GrdIdle /\ MamIdle /\ FrcIdle

\* Kokkos::parallel_for(name, policy, functor)
KernelLaunch(k) ==
  /\ knl_host = <<"launch", k>>
  /\ knl_pending' = [knl_pending EXCEPT ![k] = LeagueSize(k, knl_nelem)]
  /\ knl_host' = IF k < Len(Kernels) THEN <<"fence", k>> ELSE <<"returned", k>>
  /\ UNCHANGED <<knl_nelem, knl_running, knl_done>>
  /\ KnlFrame

\* Kokkos::fence() after kernel k
KernelFence(k) ==
  /\ knl_host = <<"fence", k>>
  /\ Kokkos_fence(knl_pending, knl_running)
  /\ knl_host' = <<"launch", k + 1>>
  /\ UNCHANGED <<knl_nelem, knl_pending, knl_running, knl_done>>
  /\ KnlFrame

\* the device starts a team of kernel k
TeamStart(k) ==
  /\ knl_pending[k] > 0
  /\ knl_pending' = [knl_pending EXCEPT ![k] = @ - 1]
  /\ knl_running' = [knl_running EXCEPT ![k] = @ + 1]
  /\ UNCHANGED <<knl_nelem, knl_host, knl_done>>
  /\ KnlFrame

\* a team of kernel k finishes
TeamFinish(k) ==
  /\ knl_running[k] > 0
  /\ knl_running' = [knl_running EXCEPT ![k] = @ - 1]
  /\ knl_done' = [knl_done EXCEPT ![k] = @ + 1]
  /\ UNCHANGED <<knl_nelem, knl_host, knl_pending>>
  /\ KnlFrame

FenceNext ==
  \/ \E k \in 1..Len(Kernels) : KernelLaunch(k)
  \/ \E k \in 1..(Len(Kernels) - 1) : KernelFence(k)
  \/ \E k \in 1..Len(Kernels) : TeamStart(k)
  \/ \E k \in 1..Len(Kernels) : TeamFinish(k)

SpecFence == FenceInit /\ [][FenceNext]_vars

\* C17: no team of the IOP-forcing kernel starts before every team of the
\* temperature/Exner kernel has finished, and no team of the Qdp/vtheta_dp
\* kernel starts before every team of the IOP-forcing kernel has finished:
\* whenever a team of a kernel has started, all teams of the kernel before
\* it have finished.
C17_KernelsInOrder ==
  \A k \in 2..Len(Kernels) :
    (knl_running[k] + knl_done[k] > 0) =>
      knl_done[k - 1] = LeagueSize(k - 1, knl_nelem)

\* with two elements, a team of the Qdp/vtheta_dp kernel is running while
\* another has not started, all eight teams of the IOP-forcing kernel done
C17_Witness ==
  /\ knl_nelem = 2
  /\ knl_running[3] = 1 /\ knl_pending[3] = 1
  /\ knl_done[2] = 2 * NGP * NGP
  /\ knl_done[1] = 2

(***************************************************************************)
(* advance_iop_subsidence.  Views are scalarized: entry idx of a view is   *)
(* lane idx % n of pack idx \div n, for the pack width n = Pack::n.  A      *)
(* workspace slot holds junk until written.                                 *)
(***************************************************************************)
\* largest number of threads of a team
MaxTeamSize == 2

\* entries of a view of npack(len) packs
Entries(len, n) == 0..(npack(len, n) * n - 1)

\* const int pack_begin = 1/Pack::n, pack_end = (nlevs-1)/Pack::n
pack_begin(n) == 1 \div n
pack_end(nlevs, n) == (nlevs - 1) \div n

\* the value iteration idx \div n computes in the lane of entry idx:
\* range_pack.set(range_pack<1, 1) turns the index 0 into 1 before
\* index_and_shift<-1> reads pmid and omega, and pint(k) is the pack itself:
\* weight*omega_k + (1-weight)*omega_km1 with
\* weight = (pint(idx) - pmid(r-1))/(pmid(r) - pmid(r-1)), r the index of
\* range_pack
omega_int_value(in, idx) ==
  LET r == IF idx < 1 THEN 1 ELSE idx
      weight == RDiv(RSub(in.pint[idx], in.pmid[r - 1]),
                     RSub(in.pmid[r], in.pmid[r - 1]))
  IN  RAdd(RMul(weight, in.omega[r]),
           RMul(RSub(One, weight), in.omega[r - 1]))

\* iteration k of the interpolation loop: omega_int(k).set(range_pack>=1 and
\* range_pack<=nlevs-1, ..) is masked by range_pack after its index 0 became
\* 1, so that it writes the entries of pack k inside 0..nlevs-1, entry 0
\* included when 1 <= nlevs-1
omega_int_iteration(in, omega_int, k) ==
  [idx \in DOMAIN omega_int |->
     LET r == IF idx < 1 THEN 1 ELSE idx
     IN  IF idx \div in.n = k /\ r >= 1 /\ r <= in.nlevs - 1
           THEN omega_int_value(in, idx) ELSE omega_int[idx]]

\* the boundary writes left out
omega_int_boundaries_skipped(in, omega_int, which) == omega_int

\* omega_int(0)[0] = 0 (which = "top");
\* omega_int(nlevs/Pack::n)[nlevs%Pack::n] = 0 (which = "bot")
omega_int_boundaries(in, omega_int, which) ==
  IF which = "top"
    THEN [omega_int EXCEPT ![0 * in.n + 0] = Zero]
    ELSE [omega_int EXCEPT ![(in.nlevs \div in.n) * in.n + (in.nlevs % in.n)] = Zero]

\* the iterations of a TeamVectorRange(team, first, last+1) that thread t of
\* a team of team_size threads executes, in increasing order
OwnIterations(t, team_size, first, last) ==
  {k \in first..last : (k - first) % team_size = t - 1}

NextOwn(t, team_size, from, first, last) ==
  LET rest == {k \in OwnIterations(t, team_size, first, last) : k >= from}
  IN  IF rest = {} THEN last + 1
      ELSE CHOOSE k \in rest : \A j \in rest : k <= j

\* the pressures and omega of a call with nlevs levels: pmid(k) = 2k+1,
\* pint(k) = 2k
SubsidenceColumns(nlevs, n, omegaSet) ==
  [n : {n}, nlevs : {nlevs},
   pmid : {[k \in Entries(nlevs, n) |-> Real(2 * k + 1)]},
   pint : {[k \in Entries(nlevs + 1, n) |-> Real(2 * k)]},
   pdel : {[k \in Entries(nlevs, n) |-> Two]},
   omega : [Entries(nlevs, n) -> omegaSet],
   junk : {One}]

SubTeamInit ==
  /\ \E n \in 1..MaxVectorSize, team_size \in 1..MaxTeamSize :
       /\ sub_in \in SubsidenceColumns(NUM_PHYSICAL_LEV, n, PosVals)
       /\ sub_thread = [t \in 1..team_size |->
            [pc |-> "interpolate",
             k |-> NextOwn(t, team_size, pack_begin(n), pack_begin(n),
                           pack_end(NUM_PHYSICAL_LEV, n))]]
  /\ sub_omega_int = [idx \in Entries(sub_in.nlevs + 1, sub_in.n) |-> sub_in.junk]
  /\ sub_seen = {}
  /\ sub_out = <<>>
  /\ sub_pc = "team"
  /\ ColIdle /\ FpeIdle /\ AbortIdle /\ DrvIdle /\ IopIdle /\ IoIdle /\ SanIdle /\ RmpIdle /\ P3Idle /\ ShocIdle /\ KnlIdle /\ QdpIdle /\ GrdIdle /\ MamIdle /\ FrcIdle

TeamSize == Len(sub_thread)

\* thread t runs its next iteration of the interpolation loop, or leaves the
\* loop when it has none left
SubInterpolate(t) ==
  /\ sub_pc = "team"
  /\ sub_thread[t].pc = "interpolate"
  /\ LET k == sub_thread[t].k
     IN  IF k <= pack_end(sub_in.nlevs, sub_in.n)
           THEN /\ sub_omega_int' = omega_int_iteration(sub_in, sub_omega_int, k)
                /\ sub_thread' = [sub_thread EXCEPT ![t].k =
                     NextOwn(t, TeamSize, k + 1, pack_begin(sub_in.n),
                             pack_end(sub_in.nlevs, sub_in.n))]
           ELSE /\ sub_thread' = [sub_thread EXCEPT ![t].pc = "top"]
                /\ UNCHANGED sub_omega_int
  /\ UNCHANGED <<sub_in, sub_seen, sub_out, sub_pc>>
  /\ SubFrame

\* thread t executes omega_int(0)[0] = 0, then the bottom write
SubBoundary(t) ==
  /\ sub_pc = "team"
  /\ sub_thread[t].pc \in {"top", "bot"}
  /\ sub_omega_int' = omega_int_boundaries(sub_in, sub_omega_int, sub_thread[t].pc)
  /\ sub_thread' = [sub_thread EXCEPT ![t].pc =
                      IF sub_thread[t].pc = "top" THEN "bot" ELSE "team_barrier"]
  /\ UNCHANGED <<sub_in, sub_seen, sub_out, sub_pc>>
  /\ SubFrame

\* team.team_barrier() (after the compute_midpoint_delta calls, which leave
\* omega_int alone): thread t goes on when every thread has arrived
SubBarrier(t) ==
  /\ sub_pc = "team"
  /\ sub_thread[t].pc = "team_barrier"
  /\ \A o \in 1..TeamSize : sub_thread[o].pc \in {"team_barrier", "update", "done"}
  /\ sub_thread' = [sub_thread EXCEPT ![t] =
       [pc |-> "update",
        k |-> NextOwn(t, TeamSize, 0, 0, npack(sub_in.nlevs, sub_in.n) - 1)]]
  /\ UNCHANGED <<sub_in, sub_omega_int, sub_seen, sub_out>>
  /\ UNCHANGED sub_pc
  /\ SubFrame

\* thread t runs its next iteration of the update loop:
\* index_and_shift<1>(s_omega_int, range_pack, ..) reads the entries of pack k
\* and the entry after each of them
SubUpdateRead(t) ==
  /\ sub_pc = "team"
  /\ sub_thread[t].pc = "update"
  /\ LET k == sub_thread[t].k
         read == {idx \in 0..sub_in.nlevs :
                    \E l \in 0..(sub_in.n - 1) :
                      idx \in {k * sub_in.n + l, k * sub_in.n + l + 1}}
     IN  IF k <= npack(sub_in.nlevs, sub_in.n) - 1
           THEN /\ sub_seen' = sub_seen \cup
                     {<<idx, sub_omega_int[idx]>> : idx \in read \cap {0, sub_in.nlevs}}
                /\ sub_thread' = [sub_thread EXCEPT ![t].k =
                     NextOwn(t, TeamSize, k + 1, 0, npack(sub_in.nlevs, sub_in.n) - 1)]
           ELSE /\ sub_thread' = [sub_thread EXCEPT ![t].pc = "done"]
                /\ UNCHANGED sub_seen
  /\ UNCHANGED <<sub_in, sub_omega_int, sub_out, sub_pc>>
  /\ SubFrame

SubTeamNext ==
  \/ \E t \in 1..TeamSize : SubInterpolate(t)
  \/ \E t \in 1..TeamSize : SubBoundary(t)
  \/ \E t \in 1..TeamSize : SubBarrier(t)
  \/ \E t \in 1..TeamSize : SubUpdateRead(t)

SpecSubTeam == SubTeamInit /\ [][SubTeamNext]_vars

\* C18: under every interleaving of the team's threads and for every pack
\* width, whenever the update loop reads the top entry omega_int(0) or the
\* bottom entry omega_int(nlevs), the value it reads is zero.
C18_BoundaryOmegaZero ==
  \A r \in sub_seen : r[2] = Zero

\* a team of two threads with packs of two lanes has finished the update
\* loop, having read both boundary entries, with the interior entries
\* interpolated
C18_Witness ==
  /\ sub_pc = "team"
  /\ TeamSize = 2 /\ sub_in.n = 2
  /\ \A t \in 1..TeamSize : sub_thread[t].pc = "done"
  /\ sub_seen = {<<0, Zero>>, <<sub_in.nlevs, Zero>>}
  /\ sub_omega_int[1] = omega_int_value(sub_in, 1)
  /\ sub_omega_int[1] # Zero

(***************************************************************************)
(* advance_iop_subsidence as one call: interpolation, boundary zeros,      *)
(* layer differences, barrier, update.                                      *)
(***************************************************************************)
\* the interpolation loop from iteration k on
RECURSIVE omega_int_loop(_, _, _)
omega_int_loop(in, omega_int, k) ==
  IF k > pack_end(in.nlevs, in.n) THEN omega_int
  ELSE omega_int_loop(in, omega_int_iteration(in, omega_int, k), k + 1)

\* omega_int when the team reaches the barrier, for a slot whose entries all
\* held the value slot when it was taken
omega_int_at_barrier(in, slot) ==
  LET taken == [idx \in Entries(in.nlevs + 1, in.n) |-> slot]
      interp == omega_int_loop(in, taken, pack_begin(in.n))
  IN  omega_int_boundaries(in, omega_int_boundaries(in, interp, "top"), "bot")

\* ColOps::compute_midpoint_delta(team, nlevs-1, x, delta): delta(k) =
\* x(k+1) - x(k) for k = 0..nlevs-2, written pack by pack: the other lanes
\* of the npack(nlevs-1) packs it writes hold what the padding produced
\* (in.junk), the packs beyond them what the slot held when it was taken
ColOps_compute_midpoint_delta(in, x, slot) ==
  [idx \in Entries(in.nlevs, in.n) |->
     IF idx <= in.nlevs - 2 THEN RSub(x[idx + 1], x[idx])
     ELSE IF idx \div in.n < npack(in.nlevs - 1, in.n) THEN in.junk
     ELSE slot]

\* range_pack_m1.set(range_pack_m1<1, 1)
range_pack_m1(idx) == IF idx < 1 THEN 1 ELSE idx

\* the update of entry idx of one field: index_and_shift<-1>(s_delta,
\* range_pack_m1, delta_k, delta_km1), index_and_shift<1>(s_omega_int,
\* range_pack, omega_int_k, omega_int_kp1), then the three masked sets
subsidence_update(in, x, delta, omega_int, idx) ==
  LET delta_k == delta[range_pack_m1(idx)]
      delta_km1 == delta[range_pack_m1(idx) - 1]
      omega_int_k == omega_int[idx]
      omega_int_kp1 == omega_int[idx + 1]
      at_top == idx = 0
      at_bot == idx = in.nlevs - 1
      fac == RDiv(in.dt, RMul(Two, in.pdel[idx]))
  IN  IF at_top /\ at_bot
        THEN RSub(RSub(x[idx], RMul(RMul(fac, omega_int_kp1), delta_k)),
                  RMul(RMul(fac, omega_int_k), delta_km1))
      ELSE IF at_top
        THEN RSub(x[idx], RMul(RMul(fac, omega_int_kp1), delta_k))
      ELSE IF at_bot
        THEN RSub(x[idx], RMul(RMul(fac, omega_int_k), delta_km1))
      ELSE RSub(x[idx], RMul(fac, RAdd(RMul(omega_int_kp1, delta_k),
                                       RMul(omega_int_k, delta_km1))))

\* T(k) += dt*omega(k)*T_k*Rair/(Cpair*pmid(k))
thermal_expansion(in, idx) ==
  RDiv(RMul(RMul(RMul(in.dt, in.omega[idx]), in.T[idx]), in.Rair),
       RMul(in.Cpair, in.pmid[idx]))

\* the columns the call leaves, when every entry of the scratch slots it
\* takes held the value slot
advance_iop_subsidence(in, slot) ==
  LET omega_int == omega_int_at_barrier(in, slot)
      delta_u == ColOps_compute_midpoint_delta(in, in.u, slot)
      delta_v == ColOps_compute_midpoint_delta(in, in.v, slot)
      delta_T == ColOps_compute_midpoint_delta(in, in.T, slot)
      delta_Q == [iq \in DOMAIN in.Q |->
                    ColOps_compute_midpoint_delta(in, in.Q[iq], slot)]
      lev == 0..(in.nlevs - 1)
  IN  [u |-> [k \in lev |-> subsidence_update(in, in.u, delta_u, omega_int, k)],
       v |-> [k \in lev |-> subsidence_update(in, in.v, delta_v, omega_int, k)],
       T |-> [k \in lev |->
                RAdd(subsidence_update(in, in.T, delta_T, omega_int, k),
                     thermal_expansion(in, k))],
       Q |-> [iq \in DOMAIN in.Q |->
                [k \in lev |->
                   subsidence_update(in, in.Q[iq], delta_Q[iq], omega_int, k)]]]

\* columns of nlevs levels with one jump
StepCols(nlevs, S) ==
  {[k \in 0..(nlevs - 1) |-> IF k < j THEN a ELSE b] :
     j \in 1..(nlevs - 1), a \in S, b \in S}

\* columns whose only jump is below the top layer
TopStepCols(nlevs, S) ==
  {[k \in 0..(nlevs - 1) |-> IF k < 1 THEN a ELSE b] : a \in S, b \in S}

SubsidenceInputs ==
  UNION {[n : {n}, nlevs : {nlevs}, dt : {One},
          pmid : {[k \in Entries(nlevs, n) |-> Real(2 * k + 1)]},
          pint : {[k \in Entries(nlevs + 1, n) |-> Real(2 * k)]},
          pdel : {[k \in Entries(nlevs, n) |-> Two]},
          omega : {[k \in Entries(nlevs, n) |-> w] : w \in PosVals},
          Rair : {Two}, Cpair : {Real(7)},
          u : StepCols(nlevs, Vals),
          v : TopStepCols(nlevs, Vals),
          T : TopStepCols(nlevs, PosVals),
          Q : {<<q>> : q \in TopStepCols(nlevs, {Zero, One})},
          junk : {One}] :
         n \in 1..MaxVectorSize, nlevs \in 2..NUM_PHYSICAL_LEV}

SubsidenceInit ==
  /\ sub_in \in SubsidenceInputs
  /\ sub_omega_int = <<>>
  /\ sub_thread = <<>>
  /\ sub_seen = {}
  /\ sub_out = <<>>
  /\ sub_pc = "called"
  /\ ColIdle /\ FpeIdle /\ AbortIdle /\ DrvIdle /\ IopIdle /\ IoIdle /\ SanIdle /\ RmpIdle /\ P3Idle /\ ShocIdle /\ KnlIdle /\ QdpIdle /\ GrdIdle /\ MamIdle /\ FrcIdle

AdvanceIopSubsidence ==
  /\ sub_pc = "called"
  /\ \E slot \in Vals :
       /\ sub_out' = advance_iop_subsidence(sub_in, slot)
       /\ sub_omega_int' = omega_int_at_barrier(sub_in, slot)
  /\ sub_pc' = "returned"
  /\ UNCHANGED <<sub_in, sub_thread, sub_seen>>
  /\ SubFrame

SubsidenceNext == AdvanceIopSubsidence

SpecSubsidence == SubsidenceInit /\ [][SubsidenceNext]_vars

\* dX(j) = X(j+1) - X(j) from the values before any update
dX(x, j) == RSub(x[j + 1], x[j])

\* X(k) - dt/(2*dp(k)) * [omega_int(k+1)*dX(k) + omega_int(k)*dX(k-1)], with
\* only the k+1 term at k = 0 and only the k-1 term at k = nlevs-1
StatedUpdate(in, x, omega_int, k) ==
  LET fac == RDiv(in.dt, RMul(Two, in.pdel[k]))
      up == IF k = in.nlevs - 1 THEN Zero
            ELSE RMul(omega_int[k + 1], dX(x, k))
      down == IF k = 0 THEN Zero
              ELSE RMul(omega_int[k], dX(x, k - 1))
  IN  RSub(x[k], RMul(fac, RAdd(up, down)))

\* C19: when a call with nlevs >= 2 has returned, u, v, T and every tracer
\* hold at every layer the stated update of the values before the call, T
\* with the thermal expansion term added.
C19_SubsidenceUpdate ==
  (sub_pc = "returned" /\ sub_in.nlevs >= 2) =>
    \A k \in 0..(sub_in.nlevs - 1) :
      /\ sub_out.u[k] = StatedUpdate(sub_in, sub_in.u, sub_omega_int, k)
      /\ sub_out.v[k] = StatedUpdate(sub_in, sub_in.v, sub_omega_int, k)
      /\ sub_out.T[k] = RAdd(StatedUpdate(sub_in, sub_in.T, sub_omega_int, k),
                             thermal_expansion(sub_in, k))
      /\ \A iq \in DOMAIN sub_in.Q :
           sub_out.Q[iq][k] = StatedUpdate(sub_in, sub_in.Q[iq], sub_omega_int, k)

\* C19, below the top layer: the layers k >= 1 hold the stated update
C19_BelowTopAsStated ==
  (sub_pc = "returned" /\ sub_in.nlevs >= 2) =>
    \A k \in 1..(sub_in.nlevs - 1) :
      /\ sub_out.u[k] = StatedUpdate(sub_in, sub_in.u, sub_omega_int, k)
      /\ sub_out.T[k] = RAdd(StatedUpdate(sub_in, sub_in.T, sub_omega_int, k),
                             thermal_expansion(sub_in, k))

(***************************************************************************)
(* apply_iop_forcing, kernel compute_qdp_and_vtheta_dp: one team (element  *)
(* ie), one thread per Gauss point, a vector loop over NLEV*qsize.  A pack *)
(* is carried by one value: the kernel acts on all its lanes alike.        *)
(***************************************************************************)
\* tracer slots of Q_dyn and Qdp_dyn beyond the qsize advected ones
ExtraTracerSlots == 1

\* const int igp = idx/NGP; const int jgp = idx%NGP
gauss_point(idx) == <<idx \div NGP, idx % NGP>>

\* const int ilev = k/qsize; const int q = k%qsize
qdp_index(k, qsize) == [ilev |-> k \div qsize, q |-> k % qsize]

\* iteration k of the vector loop at Gauss point pt:
\* Qdp_i(q, ilev) = Q_i(q, ilev)*dp3d_i(ilev);
\* Q_i(q, ilev) = Qdp_i(q, ilev)/dp3d_i(ilev)
qdp_iteration(in, st, pt, k) ==
  LET i == qdp_index(k, in.qsize)
      Qdp_new == RMul(st.Q[pt][i.q][i.ilev], in.dp3d[pt][i.ilev])
  IN  [Qdp |-> [st.Qdp EXCEPT ![pt][i.q][i.ilev] = Qdp_new],
       Q |-> [st.Q EXCEPT ![pt][i.q][i.ilev] = RDiv(Qdp_new, in.dp3d[pt][i.ilev])],
       writes |-> [st.writes EXCEPT ![pt][i.q][i.ilev] = @ + 1]]

\* Kokkos::parallel_for(Kokkos::ThreadVectorRange(team, NLEV*qsize), ..)
RECURSIVE qdp_loop(_, _, _, _)
qdp_loop(in, st, pt, k) ==
  IF k >= in.NLEV * in.qsize THEN st
  ELSE qdp_loop(in, qdp_iteration(in, st, pt, k), pt, k + 1)

\* R(ilev) = Rgas + (Rwv-Rgas)*Q(ilev) with moisture, Rgas without
get_R_star(cfg, qv) ==
  [k \in DOMAIN qv |->
     IF cfg.use_moisture
       THEN RAdd(cfg.Rgas, RMul(RSub(cfg.Rwv, cfg.Rgas), qv[k]))
       ELSE cfg.Rgas]

\* vtheta_dp_i(k) = temperature_i(k)*rstar_i(k)*dp3d_i(k)/(Rair*exner_i(k))
vtheta_dp_value(in, rstar_i, pt, k) ==
  RDiv(RMul(RMul(in.temperature[pt][k], rstar_i[k]), in.dp3d[pt][k]),
       RMul(in.Rair, in.exner[pt][k]))

GaussPoints == {gauss_point(idx) : idx \in 0..(NGP * NGP - 1)}

\* the element's views when the kernel starts: the forced tracers differ by
\* tracer and level, the layer thickness by level
QdpInputs ==
  UNION {[qsize : {qsize}, NLEV : {NUM_LEV(vs)},
          Q : {[pt \in GaussPoints |->
                  [q \in 0..(qsize + ExtraTracerSlots - 1) |->
                     [ilev \in 0..(NUM_LEV(vs) - 1) |->
                        RAdd(a, Real(q + 2 * ilev + pt[1]))]]] : a \in Vals},
          dp3d : {[pt \in GaussPoints |->
                     [ilev \in 0..(NUM_LEV(vs) - 1) |-> RAdd(d, Real(ilev + pt[2]))]] :
                  d \in PosVals},
          temperature : {[pt \in GaussPoints |-> [ilev \in 0..(NUM_LEV(vs) - 1) |-> One]]},
          exner : {[pt \in GaussPoints |-> [ilev \in 0..(NUM_LEV(vs) - 1) |-> One]]},
          use_moisture : BOOLEAN,
          Rair : {Two}, Rgas : {Two}, Rwv : {Real(3)},
          stale : {Real(-1)}] :
         qsize \in 1..(MaxTracers - 2), vs \in 1..MaxVectorSize}

QdpInit ==
  /\ qdp_in \in QdpInputs
  /\ qdp_Q = qdp_in.Q
  /\ qdp_Qdp = [pt \in GaussPoints |->
                  [q \in 0..(qdp_in.qsize + ExtraTracerSlots - 1) |->
                     [ilev \in 0..(qdp_in.NLEV - 1) |-> qdp_in.stale]]]
  /\ qdp_vtheta_dp = [pt \in GaussPoints |->
                        [ilev \in 0..(qdp_in.NLEV - 1) |-> qdp_in.stale]]
  /\ qdp_writes = [pt \in GaussPoints |->
                     [q \in 0..(qdp_in.qsize + ExtraTracerSlots - 1) |->
                        [ilev \in 0..(qdp_in.NLEV - 1) |-> 0]]]
  /\ qdp_todo = 0..(NGP * NGP - 1)
  /\ qdp_host = "launched"
  /\ ColIdle /\ FpeIdle /\ AbortIdle /\ DrvIdle /\ IopIdle /\ IoIdle /\ SanIdle /\ RmpIdle /\ P3Idle /\ ShocIdle /\ KnlIdle /\ SubIdle /\ GrdIdle /\ MamIdle /\ FrcIdle

\* the body of the TeamThreadRange loop for idx: the Qdp loop, then
\* elem_ops.get_R_star(kv, use_moisture, qv_scalar, rstar_scalar) on the
\* first tracer as the loop left it, then the vtheta_dp loop
QdpThread(idx) ==
  /\ idx \in qdp_todo
  /\ LET pt == gauss_point(idx)
         st == qdp_loop(qdp_in,
                        [Q |-> qdp_Q, Qdp |-> qdp_Qdp, writes |-> qdp_writes],
                        pt, 0)
         rstar_i == get_R_star(qdp_in, st.Q[pt][0])
     IN  /\ qdp_Q' = st.Q
         /\ qdp_Qdp' = st.Qdp
         /\ qdp_writes' = st.writes
         /\ qdp_vtheta_dp' = [qdp_vtheta_dp EXCEPT ![pt] =
              [k \in 0..(qdp_in.NLEV - 1) |->
                 vtheta_dp_value(qdp_in, rstar_i, pt, k)]]
  /\ qdp_todo' = qdp_todo \ {idx}
  /\ UNCHANGED <<qdp_in, qdp_host>>
  /\ QdpFrame

\* apply_iop_forcing returns after Kokkos::parallel_for(
\* "compute_qdp_and_vtheta_dp", ..): no Kokkos::fence() follows the launch,
\* so that the host leaves whatever part of the kernel has run
QdpReturn ==
  /\ qdp_host = "launched"
  /\ qdp_host' = "returned"
  /\ UNCHANGED <<qdp_in, qdp_Q, qdp_Qdp, qdp_vtheta_dp, qdp_writes, qdp_todo>>
  /\ QdpFrame

QdpNext ==
  \/ \E idx \in 0..(NGP * NGP - 1) : QdpThread(idx)
  \/ QdpReturn

SpecQdp == QdpInit /\ [][QdpNext]_vars

\* the values C20 states, at every Gauss point, tracer q < qsize and level
QdpInPlace ==
  \A pt \in GaussPoints :
    \A q \in 0..(qdp_in.qsize - 1) :
      \A ilev \in 0..(qdp_in.NLEV - 1) :
        /\ qdp_writes[pt][q][ilev] = 1
        /\ qdp_Qdp[pt][q][ilev] = RMul(qdp_in.Q[pt][q][ilev], qdp_in.dp3d[pt][ilev])
        /\ qdp_Q[pt][q][ilev] = RDiv(qdp_Qdp[pt][q][ilev], qdp_in.dp3d[pt][ilev])

\* C20: when apply_iop_forcing has returned, at every Gauss point, tracer
\* q < qsize and level, Qdp is the forced Q times dp, the stored Q is Qdp/dp,
\* and the pair was written exactly once.
C20_QdpAtReturn ==
  qdp_host = "returned" => QdpInPlace

\* C20, at completion of the kernel: once every Gauss point of the element
\* is done the values are in place, and at every moment no pair was written
\* twice and no slot at or beyond qsize was written
C20_QdpFromForcedQ ==
  /\ \A pt \in GaussPoints :
       \A q \in 0..(qdp_in.qsize + ExtraTracerSlots - 1) :
         \A ilev \in 0..(qdp_in.NLEV - 1) :
           /\ qdp_writes[pt][q][ilev] <= 1
           /\ q >= qdp_in.qsize => qdp_writes[pt][q][ilev] = 0
  /\ qdp_todo = {} => QdpInPlace

(***************************************************************************)
(* RemapStateProvider::preprocess_state and postprocess_state, one column  *)
(* (ie, np1, igp, jgp).  The state of a column is the record of its views  *)
(* w_i, phinh_i (interfaces), delta_w, delta_phinh (midpoints) and the     *)
(* scratch view temp (interfaces).                                         *)
(***************************************************************************)
\* the layer thicknesses whose hydrostatic midpoint pressures are
\* p0*2^pexp(k), above the top pressure p_top
RECURSIVE HydrostaticPInt(_, _, _, _)
HydrostaticPInt(p_top, p0, pexp, k) ==
  IF k = 0 THEN p_top
  ELSE RSub(RMul(Two, RMul(p0, RPow(Two, pexp[k - 1]))),
            HydrostaticPInt(p_top, p0, pexp, k - 1))

HydrostaticDp(p_top, p0, pexp) ==
  [k \in Levels |-> RSub(HydrostaticPInt(p_top, p0, pexp, k + 1),
                         HydrostaticPInt(p_top, p0, pexp, k))]

\* the provider of the backward scan without the sign change
minus_delta_unsigned(delta) == delta

\* auto minus_delta = [&](const int ilev)->Scalar { return -delta(ilev); }
minus_delta(delta) ==
  [ilev \in DOMAIN delta |-> [v \in DOMAIN delta[ilev] |-> RNeg(delta[ilev][v])]]

\* the surface value without the division by g
w_i_surface_times_g(in) ==
  RAdd(RMul(in.v[1], in.gradphis[1]), RMul(in.v[2], in.gradphis[2]))

\* (v(0,..,LAST_MID_PACK)[LAST_MID_PACK_END]*gradphis(0,..) +
\*  v(1,..,LAST_MID_PACK)[LAST_MID_PACK_END]*gradphis(1,..)) / g
w_i_surface(in) ==
  RDiv(RAdd(RMul(in.v[1], in.gradphis[1]), RMul(in.v[2], in.gradphis[2])), in.g)

\* phi_ref of the column: compute_hydrostatic_p into (p_i = temp, p =
\* delta_phinh), then compute_phi_i into phi_ref = temp
remap_phi_ref(gpu, vs, in, st) ==
  LET dp_pt == PackView(HydrostaticDp(RMul(in.hybrid_ai0, in.ps0), in.p0, in.pexp),
                        NUM_PHYSICAL_LEV, vs, in.pad)
      hp == ElementOps_compute_hydrostatic_p(gpu, vs, in.hybrid_ai0, in.ps0,
                                             dp_pt, st.temp, st.delta_phinh,
                                             [v \in 0..(vs - 1) |-> in.pad])
      vtheta_dp == PackView(in.vtheta_dp, NUM_PHYSICAL_LEV, vs, in.pad)
  IN  [p |-> hp.pi,
       phi_ref |-> EOS_compute_phi_i(gpu, vs, in.Rgas, in.p0, in.phis, vtheta_dp,
                                     hp.pi, hp.p_i, in.pad)]

preprocess_state(gpu, vs, istate, in, st) ==
  IF istate = 0
    THEN [st EXCEPT !.delta_w =
            compute_midpoint_delta(gpu, vs, "Replace", st.w_i, st.delta_w, One, Zero)]
  ELSE IF istate = 1
    THEN LET ref == remap_phi_ref(gpu, vs, in, st)
             phinh_i == [ilev \in DOMAIN st.phinh_i |->
                           PSub(st.phinh_i[ilev], ref.phi_ref[ilev])]
         IN  [st EXCEPT !.temp = ref.phi_ref,
                        !.phinh_i = phinh_i,
                        !.delta_phinh =
                          compute_midpoint_delta(gpu, vs, "Replace", phinh_i,
                                                 ref.p, One, Zero)]
  ELSE st

postprocess_state(gpu, vs, istate, in, st) ==
  IF istate = 0
    THEN LET scanned == column_scan_mid_to_int(gpu, vs, FALSE,
                          minus_delta(st.delta_w), st.w_i, in.pad)
         IN  [st EXCEPT !.w_i =
                [scanned EXCEPT ![LastPack(NUM_INTERFACE_LEV, vs)]
                                 [LastPackEnd(NUM_INTERFACE_LEV, vs)] = w_i_surface(in)]]
  ELSE IF istate = 1
    THEN LET scanned == column_scan_mid_to_int(gpu, vs, FALSE,
                          minus_delta(st.delta_phinh), st.phinh_i, in.pad)
             ref == remap_phi_ref(gpu, vs, in, st)
         IN  [st EXCEPT !.temp = ref.phi_ref,
                        !.delta_phinh = ref.p,
                        !.phinh_i = [ilev \in DOMAIN scanned |->
                                       PAdd(scanned[ilev], ref.phi_ref[ilev])]]
  ELSE st

\* the exponents of the hydrostatic midpoint pressures
RemapPExps == {[k \in Levels |-> k + e] : e \in 0..1}

\* a w_i column of zeros whose surface entry is the negative zero
SurfaceNZero == [k \in Interfaces |-> IF k = NUM_PHYSICAL_LEV THEN NZero ELSE Zero]

\* the arguments of a call for state 0 (w_i) and for state 1 (phinh_i); the
\* views the other state uses are held fixed
RemapStateInputs ==
  [vs : 1..MaxVectorSize,
   pad : {One},
   istate : {0},
   Rgas : {Two}, p0 : {Two}, phis : {One},
   hybrid_ai0 : {One}, ps0 : {One},
   vtheta_dp : ConstCols(Levels, {One}),
   pexp : {[k \in Levels |-> k]},
   w_i : StepCols(NUM_INTERFACE_LEV, Vals) \cup {SurfaceNZero},
   phinh_i : ConstCols(Interfaces, {Zero}),
   delta_w : TopStepCols(NUM_PHYSICAL_LEV, Vals),
   v : {<<Zero, One>>, <<One, One>>},
   gradphis : {<<One, Two>>},
   g : {Two}]
  \cup
  [vs : 1..MaxVectorSize,
   pad : {One},
   istate : {1},
   Rgas : {Two}, p0 : {Two}, phis : {One},
   hybrid_ai0 : {One}, ps0 : {One},
   vtheta_dp : ConstCols(Levels, {One, Two}),
   pexp : RemapPExps,
   w_i : ConstCols(Interfaces, {Zero}),
   phinh_i : TopStepCols(NUM_INTERFACE_LEV, {Zero, One}),
   delta_w : ConstCols(Levels, {Zero}),
   v : {<<One, One>>},
   gradphis : {<<One, Two>>},
   g : {Two}]

RemapStateInit ==
  /\ col_in \in RemapStateInputs
  /\ col_out = [path \in Paths |->
       [w_i |-> PackView(col_in.w_i, NUM_INTERFACE_LEV, VS(path), col_in.pad),
        phinh_i |-> PackView(col_in.phinh_i, NUM_INTERFACE_LEV, VS(path), col_in.pad),
        delta_w |-> PackView(col_in.delta_w, NUM_PHYSICAL_LEV, VS(path), col_in.pad),
        delta_phinh |-> PackView([k \in Levels |-> Zero], NUM_PHYSICAL_LEV, VS(path), col_in.pad),
        temp |-> PackView([k \in Interfaces |-> Zero], NUM_INTERFACE_LEV, VS(path), col_in.pad)]]
  /\ col_ran = [path \in Paths |-> "none"]
  /\ FpeIdle /\ AbortIdle /\ DrvIdle /\ IopIdle /\ IoIdle /\ SanIdle /\ RmpIdle /\ P3Idle /\ ShocIdle /\ KnlIdle /\ SubIdle /\ QdpIdle /\ GrdIdle /\ MamIdle /\ FrcIdle

\* preprocess_state(kv, istate, np1, dp)
PreprocessState(path) ==
  /\ col_ran[path] = "none"
  /\ col_out' = [col_out EXCEPT ![path] =
       preprocess_state(OnGpu(path), VS(path), col_in.istate, col_in, col_out[path])]
  /\ col_ran' = [col_ran EXCEPT ![path] = "preprocess_state"]
  /\ UNCHANGED col_in
  /\ ColFrame

\* postprocess_state(kv, istate, np1, dp), after a preprocess_state of the
\* same state or with the layer differences some other code left
PostprocessState(path) ==
  /\ col_ran[path] \in {"none", "preprocess_state"}
  /\ col_out' = [col_out EXCEPT ![path] =
       postprocess_state(OnGpu(path), VS(path), col_in.istate, col_in, col_out[path])]
  /\ col_ran' = [col_ran EXCEPT ![path] =
       IF col_ran[path] = "none" THEN "postprocess_state" ELSE "round_trip"]
  /\ UNCHANGED col_in
  /\ ColFrame

RemapStateNext ==
  \/ \E path \in Paths : PreprocessState(path)
  \/ \E path \in Paths : PostprocessState(path)

SpecRemapState == RemapStateInit /\ [][RemapStateNext]_vars

\* the sum of delta(j) over j = k..NUM_PHYSICAL_LEV-1
RECURSIVE SumFrom(_, _, _)
SumFrom(delta, vs, k) ==
  IF k >= NUM_PHYSICAL_LEV THEN Zero
  ELSE RAdd(Lvl(delta, vs, k), SumFrom(delta, vs, k + 1))

C22_RoundTripRestores ==
  \A path \in Paths :
    col_ran[path] = "round_trip" =>
      /\ col_in.istate = 1 =>
           \A k \in Interfaces :
             Lvl(col_out[path].phinh_i, VS(path), k) = col_in.phinh_i[k]
      /\ col_in.istate = 0 =>
           \A k \in Levels :
             Lvl(col_out[path].w_i, VS(path), k) = col_in.w_i[k]

\* the round trip of state 1 has run on the wide-vector path with packs of
\* two lanes on a phinh_i that differs from the reference geopotential, and
\* the reference geopotential, not zero, is what the scratch view holds
C22_Witness ==
  /\ col_in # <<>> /\ "istate" \in DOMAIN col_in
  /\ col_in.istate = 1 /\ col_in.vs = 2
  /\ col_ran["host"] = "round_trip"
  /\ col_in.phinh_i[0] = One /\ col_in.phinh_i[1] = Zero
  /\ Lvl(col_out["host"].phinh_i, 2, 0) = One
  /\ Lvl(col_out["host"].temp, 2, 0) # Zero
  /\ Lvl(col_out["host"].temp, 2, 0) # NaN
  /\ Lvl(col_out["host"].temp, 2, NUM_PHYSICAL_LEV) = col_in.phis

(***************************************************************************)
(* EquationOfState::compute_dpnh_dp_i, one column.                         *)
(***************************************************************************)
\* compute_dpnh_dp_i without the division of the interior by dp_i
EOS_compute_dpnh_dp_i_undivided(gpu, vs, hydrostatic, hybrid_ai0, ps0, pnh, dp_i, dpnh_dp_i) ==
  IF hydrostatic
    THEN [ilev \in DOMAIN dpnh_dp_i |-> [v \in DOMAIN dpnh_dp_i[ilev] |-> One]]
    ELSE LET delta == compute_interface_delta(gpu, vs, "Replace", "DoNothing", pnh,
                                              dpnh_dp_i, Zero, One, Zero)
             LAST_INT_PACK == LastPack(NUM_INTERFACE_LEV, vs)
             LAST_INT_END == LastPackEnd(NUM_INTERFACE_LEV, vs)
             top == [delta EXCEPT ![0][0] =
                       RDiv(RMul(Two, RSub(pnh[0][0], RMul(hybrid_ai0, ps0))), dp_i[0][0])]
         IN  [top EXCEPT ![LAST_INT_PACK][LAST_INT_END] = One]

\* m_theta_hydrostatic_mode: 1.0 in every pack; otherwise
\* compute_interface_delta<Replace,DoNothing>, the division of the first
\* NUM_LEV packs by dp_i, and the two boundary entries
EOS_compute_dpnh_dp_i(gpu, vs, hydrostatic, hybrid_ai0, ps0, pnh, dp_i, dpnh_dp_i) ==
  IF hydrostatic
    THEN [ilev \in DOMAIN dpnh_dp_i |-> [v \in DOMAIN dpnh_dp_i[ilev] |-> One]]
    ELSE LET delta == compute_interface_delta(gpu, vs, "Replace", "DoNothing", pnh,
                                              dpnh_dp_i, Zero, One, Zero)
             divided == [ilev \in DOMAIN delta |->
                           IF ilev < NUM_LEV(vs)
                             THEN PDiv(delta[ilev], dp_i[ilev]) ELSE delta[ilev]]
             LAST_MID_PACK == LastPack(NUM_PHYSICAL_LEV, vs)
             LAST_MID_END == LastPackEnd(NUM_PHYSICAL_LEV, vs)
             LAST_INT_PACK == LastPack(NUM_INTERFACE_LEV, vs)
             LAST_INT_END == LastPackEnd(NUM_INTERFACE_LEV, vs)
             top == [divided EXCEPT ![0][0] =
                       RDiv(RMul(Two, RSub(pnh[0][0], RMul(hybrid_ai0, ps0))), dp_i[0][0])]
             pnh_last == pnh[LAST_MID_PACK][LAST_MID_END]
             dp_last == dp_i[LAST_INT_PACK][LAST_INT_END]
             pnh_i_last == RAdd(pnh_last, RDiv(dp_last, Two))
         IN  [top EXCEPT ![LAST_INT_PACK][LAST_INT_END] =
                RDiv(RMul(Two, RSub(pnh_i_last, pnh_last)), dp_last)]

DpnhInit ==
  /\ col_in \in [vs : 1..MaxVectorSize,
                 pad : {One},
                 theta_hydrostatic_mode : BOOLEAN,
                 hybrid_ai0 : {One}, ps0 : {One},
                 pnh : StepCols(NUM_PHYSICAL_LEV, PosVals),
                 dp_i : TopStepCols(NUM_INTERFACE_LEV, PosVals),
                 prior_i : ConstCols(Interfaces, Vals)]
  /\ col_out = [path \in Paths |->
       [int |-> PackView(col_in.prior_i, NUM_INTERFACE_LEV, VS(path), col_in.pad)]]
  /\ col_ran = [path \in Paths |-> "none"]
  /\ FpeIdle /\ AbortIdle /\ DrvIdle /\ IopIdle /\ IoIdle /\ SanIdle /\ RmpIdle /\ P3Idle /\ ShocIdle /\ KnlIdle /\ SubIdle /\ QdpIdle /\ GrdIdle /\ MamIdle /\ FrcIdle

\* compute_dpnh_dp_i(kv, pnh, dp_i, dpnh_dp_i)
EosComputeDpnhDpI(path) ==
  /\ col_ran[path] = "none"
  /\ col_out' = [col_out EXCEPT ![path].int =
       EOS_compute_dpnh_dp_i(OnGpu(path), VS(path), col_in.theta_hydrostatic_mode,
         col_in.hybrid_ai0, col_in.ps0,
         PackView(col_in.pnh, NUM_PHYSICAL_LEV, VS(path), col_in.pad),
         PackView(col_in.dp_i, NUM_INTERFACE_LEV, VS(path), col_in.pad),
         col_out[path].int)]
  /\ col_ran' = [col_ran EXCEPT ![path] = "compute_dpnh_dp_i"]
  /\ UNCHANGED col_in
  /\ ColFrame

DpnhNext == \E path \in Paths : EosComputeDpnhDpI(path)

SpecDpnh == DpnhInit /\ [][DpnhNext]_vars

\* C23: after compute_dpnh_dp_i, on both code paths: in hydrostatic mode
\* every one of the NLEV+1 interfaces holds 1; in non-hydrostatic mode an
\* interior interface k = 1..NLEV-1 holds (pnh(k) - pnh(k-1))/dp_i(k), the
\* top interface 2*(pnh(0) - hyai(0)*ps0)/dp_i(0), the bottom interface 1.
C23_DpnhDpI ==
  \A path \in Paths :
    col_ran[path] = "compute_dpnh_dp_i" =>
      LET out(k) == Lvl(col_out[path].int, VS(path), k)
      IN  IF col_in.theta_hydrostatic_mode
            THEN \A k \in Interfaces : out(k) = One
            ELSE /\ \A k \in 1..(NUM_PHYSICAL_LEV - 1) :
                      out(k) = RDiv(RSub(col_in.pnh[k], col_in.pnh[k - 1]), col_in.dp_i[k])
                 /\ out(0) = RDiv(RMul(Two, RSub(col_in.pnh[0],
                                   RMul(col_in.hybrid_ai0, col_in.ps0))), col_in.dp_i[0])
                 /\ out(NUM_PHYSICAL_LEV) = One

\* a non-hydrostatic call has run on the wide-vector path with packs of two
\* lanes for a pnh that jumps at the first interior interface, where dp_i is
\* 2: the interface holds 1/2, the top holds 2*(1-1)/1, and the prior content
\* was 1
C23_Witness ==
  /\ col_in # <<>> /\ "pnh" \in DOMAIN col_in
  /\ ~col_in.theta_hydrostatic_mode /\ col_in.vs = 2
  /\ col_ran["host"] = "compute_dpnh_dp_i"
  /\ col_in.pnh[0] = One /\ col_in.pnh[1] = Two
  /\ col_in.dp_i[0] = One /\ col_in.dp_i[1] = Two
  /\ col_in.prior_i[0] = One
  /\ Lvl(col_out["host"].int, 2, 1) = <<1, 2>>
  /\ Lvl(col_out["host"].int, 2, 0) = Zero
  /\ Lvl(col_out["host"].int, 2, NUM_PHYSICAL_LEV) = One

\* C24: after compute_interface_delta with boundary-condition type
\* DoNothing, on both code paths, the top entry dx_i(0) and the bottom entry
\* dx_i(NLEV) of the output hold what they held before the call.
C24_DoNothingKeepsBoundaries ==
  \A path \in Paths :
    (col_ran[path] = "compute_interface_delta" /\ col_in.bcType = "DoNothing") =>
      /\ Lvl(col_out[path].int, VS(path), 0) = col_in.prior_i[0]
      /\ Lvl(col_out[path].int, VS(path), NUM_PHYSICAL_LEV) =
           col_in.prior_i[NUM_PHYSICAL_LEV]

\* C24, scalar path: there the two boundary entries are left alone
C24_DoNothingKeepsBoundariesOnGpu ==
  (col_ran["gpu"] = "compute_interface_delta" /\ col_in.bcType = "DoNothing") =>
    /\ Lvl(col_out["gpu"].int, 1, 0) = col_in.prior_i[0]
    /\ Lvl(col_out["gpu"].int, 1, NUM_PHYSICAL_LEV) = col_in.prior_i[NUM_PHYSICAL_LEV]

(***************************************************************************)
(* advance_iop_subsidence called on the same arguments with different      *)
(* contents of the scratch slots it takes.                                  *)
(***************************************************************************)
\* the call on sub_in with slots that held the value slot; sub_seen collects
\* the slot content and the columns left at levels 0..nlevs-1
SubsidenceWithSlots(slot) ==
  /\ sub_pc \in {"called", "returned"}
  /\ \A r \in sub_seen : r[1] # slot
  /\ sub_out' = advance_iop_subsidence(sub_in, slot)
  /\ sub_omega_int' = omega_int_at_barrier(sub_in, slot)
  /\ sub_seen' = sub_seen \cup {<<slot, advance_iop_subsidence(sub_in, slot)>>}
  /\ sub_pc' = "returned"
  /\ UNCHANGED <<sub_in, sub_thread>>
  /\ SubFrame

SubsidenceSlotsNext == \E slot \in Vals : SubsidenceWithSlots(slot)

SpecSubsidenceSlots == SubsidenceInit /\ [][SubsidenceSlotsNext]_vars

\* C25: any two calls of advance_iop_subsidence on the same arguments, with
\* different initial contents of the scratch slots, leave the same u, v, T
\* and Q at the levels 0..nlevs-1.
C25_SlotContentsDoNotMatter ==
  \A a \in sub_seen : \A b \in sub_seen : a[2] = b[2]

\* C25, three or more levels: there the outputs do not depend on the slots
C25_SlotContentsDoNotMatterFromThreeLevels ==
  (sub_in # <<>> /\ sub_in.nlevs >= 3) =>
    \A a \in sub_seen : \A b \in sub_seen : a[2] = b[2]

(***************************************************************************)
(* get_required_grids of AtmDensityDiagnostic and RRTMGPRadiation.  The    *)
(* set s is a function-local static: one object per class, shared by all   *)
(* instances, alive from the first call to the end of the program.         *)
(***************************************************************************)
\* largest number of get_required_grids calls in a run
MaxGridCalls == 3

GridClasses == {"AtmDensityDiagnostic", "RRTMGPRadiation"}
GridInstances == {"first", "second"}
GridNames == {"Physics", "Dynamics"}

\* static std::set<std::string> s; s.insert(params.get<std::string>("Grid"));
\* return s;  -- the static set after the call, which is also what is returned
get_required_grids(s, grid) == s \cup {grid}

GridsInit ==
  /\ grd_params \in [GridClasses \X GridInstances -> GridNames]
  /\ grd_static = [c \in GridClasses |-> {}]
  /\ grd_ret = <<>>
  /\ grd_calls = 0
  /\ ColIdle /\ FpeIdle /\ AbortIdle /\ DrvIdle /\ IopIdle /\ IoIdle /\ SanIdle /\ RmpIdle /\ P3Idle /\ ShocIdle /\ KnlIdle /\ SubIdle /\ QdpIdle /\ MamIdle /\ FrcIdle

GetRequiredGrids(class, inst) ==
  /\ grd_calls < MaxGridCalls
  /\ grd_static' = [grd_static EXCEPT ![class] =
                      get_required_grids(@, grd_params[<<class, inst>>])]
  /\ grd_ret' = <<class, inst, get_required_grids(grd_static[class],
                                                  grd_params[<<class, inst>>])>>
  /\ grd_calls' = grd_calls + 1
  /\ UNCHANGED grd_params
  /\ GrdFrame

GridsNext == \E class \in GridClasses, inst \in GridInstances : GetRequiredGrids(class, inst)

SpecGrids == GridsInit /\ [][GridsNext]_vars

\* C26: every call of get_required_grids returns exactly the set holding the
\* one grid name of the called instance's parameter list, whatever calls
\* came before.
C26_OnlyOwnGrid ==
  grd_ret # <<>> => grd_ret[3] = {grd_params[<<grd_ret[1], grd_ret[2]>>]}

\* C26, other class: the calls made on instances of another class do not
\* show in the returned set
C26_NoGridOfAnotherClass ==
  grd_ret # <<>> =>
    grd_ret[3] \subseteq {grd_params[<<grd_ret[1], inst>>] : inst \in GridInstances}

\* C27: in every run_impl call the tracer array handed to shoc_main has
\* width npack(num_tracers + 3) while shoc_main executes, and when run_impl
\* has returned it has width npack(num_tracers), the width it was allocated
\* with.
C27_TracerWidth ==
  /\ shoc_pc \in {"padded", "shoc_main"} =>
       shoc_heap[shoc_qtracers].npacks =
         npack(shoc_cfg.num_tracers + 3, shoc_cfg.pack_size)
  /\ shoc_pc = "returned" =>
       /\ shoc_heap[shoc_qtracers].npacks =
            npack(shoc_cfg.num_tracers, shoc_cfg.pack_size)
       /\ shoc_heap[shoc_qtracers].npacks = shoc_heap[1].npacks

\* the second run_impl call has returned for three tracers in packs of one:
\* the array went through width 6 (a later allocation than the first) and is
\* back at width 3
C27_Witness ==
  /\ shoc_pc = "returned" /\ shoc_call = 2
  /\ shoc_cfg.num_tracers = 3 /\ shoc_cfg.pack_size = 1
  /\ shoc_qtracers > 1
  /\ shoc_heap[shoc_qtracers].npacks = 3
  /\ \E a \in 1..Len(shoc_heap) : shoc_heap[a].npacks = 6

(***************************************************************************)
(* MAMOptics::run_impl.  The three parallel_for calls take policies built  *)
(* for KT::ExeSpace without an instance argument (policy and scan_policy), *)
(* so the three kernels go to the one default instance of the execution    *)
(* space.  mam_queue is the work that instance has been handed and has not *)
(* finished, in dispatch order: the instance works on the kernel at the    *)
(* head and takes the next when every work item of the head has finished;  *)
(* the host runs ahead of it and Kokkos::fence() returns when the queue is *)
(* empty.  The optics kernel has one team per column; the threads of a     *)
(* team call aer_rad_props_sw, meet at team_barrier, and call              *)
(* aer_rad_props_lw.                                                       *)
(***************************************************************************)
\* the threads of a team
TeamThreads == {"t1", "t2"}

\* if (false) { placeholder } else { optics kernel }
placeholder_branch == FALSE

\* a barrier that lets a thread through at once
team_barrier_absent(phases) == TRUE

\* team.team_barrier(): a thread goes on when every thread of the team has
\* arrived
team_barrier(phases) ==
  \A t \in TeamThreads : phases[t] \in {"barrier", "lw", "done"}

MamColumns == 1..mam_ncol

\* the kernel the instance is working on
MamDeviceKernel == IF mam_queue = <<>> THEN "none" ELSE Head(mam_queue)

\* the queue after a step of the head kernel that leaves it finished or not
MamQueueAfter(finished) == IF finished THEN Tail(mam_queue) ELSE mam_queue

MamInit ==
  /\ mam_ncol \in 1..MaxElems
  /\ mam_host = "preprocess"
  /\ mam_queue = <<>>
  /\ mam_pre = [c \in 1..mam_ncol |-> "none"]
  /\ mam_opt = [c \in 1..mam_ncol |-> [t \in TeamThreads |-> "none"]]
  /\ mam_post = [c \in 1..mam_ncol |-> "none"]
  /\ ColIdle /\ FpeIdle /\ AbortIdle /\ DrvIdle /\ IopIdle /\ IoIdle /\ SanIdle /\ RmpIdle /\ P3Idle /\ ShocIdle /\ KnlIdle /\ SubIdle /\ QdpIdle /\ GrdIdle /\ FrcIdle

\* Kokkos::parallel_for("preprocess", scan_policy, preprocess_)
MamLaunchPreprocess ==
  /\ mam_host = "preprocess"
  /\ mam_queue' = Append(mam_queue, "preprocess")
  /\ mam_pre' = [c \in MamColumns |-> "pending"]
  /\ mam_host' = "fence_preprocess"
  /\ UNCHANGED <<mam_ncol, mam_opt, mam_post>>
  /\ MamFrame

\* Kokkos::fence() after the preprocess and after the postprocess dispatch
MamFence ==
  /\ mam_host \in {"fence_preprocess", "fence_postprocess"}
  /\ mam_queue = <<>>
  /\ mam_host' = IF mam_host = "fence_preprocess" THEN "optics" ELSE "returned"
  /\ UNCHANGED <<mam_ncol, mam_queue, mam_pre, mam_opt, mam_post>>
  /\ MamFrame

\* the if (false) ... else: Kokkos::parallel_for(policy, KOKKOS_LAMBDA(team))
MamLaunchOptics ==
  /\ mam_host = "optics"
  /\ IF placeholder_branch
       THEN UNCHANGED <<mam_queue, mam_opt>>
       ELSE /\ mam_queue' = Append(mam_queue, "optics")
            /\ mam_opt' = [c \in MamColumns |-> [t \in TeamThreads |-> "pending"]]
  /\ mam_host' = "postprocess"
  /\ UNCHANGED <<mam_ncol, mam_pre, mam_post>>
  /\ MamFrame

\* Kokkos::parallel_for("postprocess", policy, postprocess_): no fence
\* between the optics dispatch and this one
MamLaunchPostprocess ==
  /\ mam_host = "postprocess"
  /\ mam_queue' = Append(mam_queue, "postprocess")
  /\ mam_post' = [c \in MamColumns |-> "pending"]
  /\ mam_host' = "fence_postprocess"
  /\ UNCHANGED <<mam_ncol, mam_pre, mam_opt>>
  /\ MamFrame

\* the instance runs the preprocess functor for column c
MamPreprocess(c) ==
  /\ MamDeviceKernel = "preprocess"
  /\ mam_pre[c] \in {"pending", "running"}
  /\ LET pre == [mam_pre EXCEPT ![c] = IF @ = "pending" THEN "running" ELSE "done"]
     IN  /\ mam_pre' = pre
         /\ mam_queue' = MamQueueAfter(\A o \in MamColumns : pre[o] = "done")
  /\ UNCHANGED <<mam_ncol, mam_host, mam_opt, mam_post>>
  /\ MamFrame

\* thread t of the team of column c advances in the optics kernel
MamOptics(c, t) ==
  /\ MamDeviceKernel = "optics"
  /\ mam_opt[c][t] \in {"pending", "sw", "barrier", "lw"}
  /\ mam_opt[c][t] = "barrier" => team_barrier(mam_opt[c])
  /\ LET opt == [mam_opt EXCEPT ![c][t] =
                   CASE @ = "pending" -> "sw"
                     [] @ = "sw" -> "barrier"
                     [] @ = "barrier" -> "lw"
                     [] @ = "lw" -> "done"]
     IN  /\ mam_opt' = opt
         /\ mam_queue' = MamQueueAfter(\A o \in MamColumns : \A u \in TeamThreads :
                                         opt[o][u] = "done")
  /\ UNCHANGED <<mam_ncol, mam_host, mam_pre, mam_post>>
  /\ MamFrame

\* the instance runs the postprocess functor for column c
MamPostprocess(c) ==
  /\ MamDeviceKernel = "postprocess"
  /\ mam_post[c] \in {"pending", "running"}
  /\ LET post == [mam_post EXCEPT ![c] = IF @ = "pending" THEN "running" ELSE "done"]
     IN  /\ mam_post' = post
         /\ mam_queue' = MamQueueAfter(\A o \in MamColumns : post[o] = "done")
  /\ UNCHANGED <<mam_ncol, mam_host, mam_pre, mam_opt>>
  /\ MamFrame

MamNext ==
  \/ MamLaunchPreprocess
  \/ MamFence
  \/ MamLaunchOptics
  \/ MamLaunchPostprocess
  \/ \E c \in MamColumns : MamPreprocess(c)
  \/ \E c \in MamColumns : \E t \in TeamThreads : MamOptics(c, t)
  \/ \E c \in MamColumns : MamPostprocess(c)

SpecMam == MamInit /\ [][MamNext]_vars

\* C28: in every run_impl call: no thread is in an optical kernel before the
\* preprocessing of all columns has completed; in a column no thread is in
\* (or past) the longwave kernel while a thread of the column has not
\* completed the shortwave kernel; no column is postprocessed before the
\* optical kernels of all columns have completed; and when run_impl has
\* returned, the optical kernels have run for every column and the
\* postprocessing of every column has completed.
C28_MamOrder ==
  /\ (\E c \in MamColumns : \E t \in TeamThreads :
        mam_opt[c][t] \in {"sw", "barrier", "lw", "done"}) =>
       \A c \in MamColumns : mam_pre[c] = "done"
  /\ \A c \in MamColumns : \A t \in TeamThreads : \A o \in TeamThreads :
       mam_opt[c][t] \in {"lw", "done"} => mam_opt[c][o] \in {"barrier", "lw", "done"}
  /\ (\E c \in MamColumns : mam_post[c] \in {"running", "done"}) =>
       \A c \in MamColumns : \A t \in TeamThreads : mam_opt[c][t] = "done"
  /\ mam_host = "returned" =>
       /\ \A c \in MamColumns : \A t \in TeamThreads : mam_opt[c][t] = "done"
       /\ \A c \in MamColumns : mam_post[c] = "done"

\* with two columns: the host has dispatched the postprocess kernel and
\* waits in the fence while one thread of the second column is still in the
\* longwave kernel, the first column's optics are complete and no column is
\* postprocessed yet
C28_Witness ==
  /\ mam_ncol = 2
  /\ mam_host = "fence_postprocess"
  /\ mam_opt[1]["t1"] = "done" /\ mam_opt[1]["t2"] = "done"
  /\ mam_opt[2]["t1"] = "lw" /\ mam_opt[2]["t2"] = "done"
  /\ mam_post[1] = "pending" /\ mam_post[2] = "pending"
  /\ mam_pre[1] = "done" /\ mam_pre[2] = "done"

(***************************************************************************)
(* HommeDynamics::apply_iop_forcing on one column (element ie, Gauss point *)
(* igp, jgp): the kernels compute_t_and_exner, apply_iop_forcing and       *)
(* compute_qdp_and_vtheta_dp, separated by fences.  The dynamics fields    *)
(* are kept level by level; a pack operator gets them as views.            *)
(***************************************************************************)
\* eos.compute_exner: exner = pi; exner /= p0; exner = pow(exner, kappa)
EOS_compute_exner(p0, pi) ==
  [ilev \in DOMAIN pi |-> [v \in DOMAIN pi[ilev] |->
     pow_kappa(RDiv(pi[ilev][v], p0))]]

\* elem_ops.get_temperature: the temperature of which vtheta_dp is the
\* potential-temperature form, T = Rgas*vtheta_dp*exner/(Rstar*dp)
get_temperature(cfg, dp3d, exner, vtheta_dp, qv) ==
  LET rstar == get_R_star(cfg, qv)
  IN  [k \in Levels |->
         NDiv(NMul(RMul(cfg.Rgas, vtheta_dp[k]), exner[k]),
              RMul(rstar[k], dp3d[k]))]

\* the branch taken whatever the parameter says
iop_dosubsidence_ignored(cfg) == TRUE

\* if (iop_dosubsidence) { advance_iop_subsidence(..) }
iop_dosubsidence(cfg) == cfg.iop_dosubsidence

\* the body of compute_t_and_exner for the column: exner from the EOS, then
\* the temperature
compute_t_and_exner(cfg, dyn) ==
  LET vs == cfg.vs
      mid(col) == PackView(col, NUM_PHYSICAL_LEV, vs, cfg.pad)
      int(col) == PackView(col, NUM_INTERFACE_LEV, vs, cfg.pad)
      scratch_m == mid([k \in Levels |-> cfg.pad])
      scratch_i == int([k \in Interfaces |-> cfg.pad])
      exner_v ==
        IF cfg.theta_hydrostatic_mode
          THEN EOS_compute_exner(cfg.p0,
                 ElementOps_compute_hydrostatic_p(cfg.gpu, vs, cfg.hybrid_ai0,
                   cfg.ps0, mid(dyn.dp3d), scratch_i, scratch_m,
                   [v \in 0..(vs - 1) |-> cfg.pad]).pi)
          ELSE EOS_compute_pnh_and_exner(cfg.gpu, vs, cfg.Rgas, cfg.p0,
                 mid(dyn.vtheta_dp), int(dyn.phi_int), scratch_m,
                 scratch_m).exner
      exner == [k \in Levels |-> Lvl(exner_v, vs, k)]
  IN  [exner |-> exner,
       temperature |-> get_temperature(cfg, dyn.dp3d, exner, dyn.vtheta_dp, dyn.Q[0])]

\* the arguments advance_iop_subsidence gets: s_pint(k) = hyai(k)*ps0 +
\* hybi(k)*ps_i, s_pmid(k) = hyam(k)*ps0 + hybm(k)*ps_i, pdel from
\* compute_midpoint_delta(team, total_levels, pint, pdel); the entries of
\* the scratch views that are not written hold what the slot held
iop_columns(cfg, dyn, tmp, slot) ==
  LET nlevs == NUM_PHYSICAL_LEV
      s_pint(k) == RAdd(RMul(cfg.hyai[k], cfg.ps0), RMul(cfg.hybi[k], dyn.ps))
      s_pmid(k) == RAdd(RMul(cfg.hyam[k], cfg.ps0), RMul(cfg.hybm[k], dyn.ps))
  IN  [n |-> cfg.vs, nlevs |-> nlevs, dt |-> cfg.dt,
       pint |-> [k \in Entries(nlevs + 1, cfg.vs) |->
                   IF k <= nlevs THEN s_pint(k) ELSE slot],
       pmid |-> [k \in Entries(nlevs, cfg.vs) |->
                   IF k < nlevs THEN s_pmid(k) ELSE slot],
       pdel |-> [k \in Entries(nlevs, cfg.vs) |->
                   IF k < nlevs THEN RSub(s_pint(k + 1), s_pint(k)) ELSE cfg.pad],
       omega |-> [k \in Entries(nlevs, cfg.vs) |->
                    IF k < nlevs THEN cfg.omega[k] ELSE cfg.pad],
       Rair |-> cfg.Rgas, Cpair |-> cfg.Cpair,
       u |-> dyn.u, v |-> dyn.v, T |-> tmp.temperature, Q |-> dyn.Q,
       junk |-> cfg.pad]

\* advance_iop_forcing: T(k) += dt*divT(k); qv(k) += dt*divq(k)
advance_iop_forcing(cfg, T, qv) ==
  [T |-> [k \in Levels |-> RAdd(T[k], RMul(cfg.dt, cfg.divT[k]))],
   qv |-> [k \in Levels |-> RAdd(qv[k], RMul(cfg.dt, cfg.divq[k]))]]

\* the column's dynamics fields on which the hydrostatic pressure and the
\* non-hydrostatic pressure are both p0 * 2^pexp(k); with pexp(k) = k and a
\* top pressure below p0 every layer thickness is positive
ForcingDyn(cfg, pexp, ps, vtheta_dp, u, v, qv) ==
  LET p == PressureColumn(cfg.p0, pexp)
      mid(col) == PackView(col, NUM_PHYSICAL_LEV, 1, cfg.pad)
      phi == EOS_compute_phi_i(TRUE, 1, cfg.Rgas, cfg.p0, Zero, mid(vtheta_dp),
                               mid(p), PackView([k \in Interfaces |-> Zero],
                                                NUM_INTERFACE_LEV, 1, cfg.pad),
                               cfg.pad)
  IN  [ps |-> ps,
       dp3d |-> HydrostaticDp(RMul(cfg.hybrid_ai0, cfg.ps0), cfg.p0, pexp),
       phi_int |-> [k \in Interfaces |-> Lvl(phi, 1, k)],
       vtheta_dp |-> vtheta_dp,
       u |-> u, v |-> v,
       Q |-> [q \in 0..0 |-> qv],
       Qdp |-> [q \in 0..0 |-> [k \in Levels |-> Zero]]]

ForcingConfigs ==
  {cfg \in [gpu : BOOLEAN, vs : 1..MaxVectorSize,
            iop_dosubsidence : BOOLEAN, theta_hydrostatic_mode : BOOLEAN,
            use_moisture : BOOLEAN,
            pad : {One}, Rgas : {Two}, Rwv : {Real(3)}, Cpair : {Real(7)},
            p0 : {Two}, ps0 : {Two}, hybrid_ai0 : {<<1, 2>>}, dt : {One},
            hyai : {[k \in Interfaces |-> <<1, 2>>]},
            hybi : {[k \in Interfaces |-> Real(2 * k)]},
            hyam : {[k \in Levels |-> One]},
            hybm : {[k \in Levels |-> Real(2 * k + 1)]},
            omega : ConstCols(Levels, {One}),
            divT : ConstCols(Levels, {One}),
            divq : ConstCols(Levels, {One})] :
     cfg.gpu => cfg.vs = 1}

ForcingInit ==
  /\ frc_cfg \in ForcingConfigs
  /\ \E ps \in PosVals, u \in StepCols(NUM_PHYSICAL_LEV, Vals),
        v \in ConstCols(Levels, Vals) :
       frc_in = ForcingDyn(frc_cfg, [k \in Levels |-> k], ps,
                           [k \in Levels |-> One], u, v, [k \in Levels |-> One])
  /\ frc_dyn = frc_in
  /\ frc_tmp = [exner |-> [k \in Levels |-> Zero], temperature |-> [k \in Levels |-> Zero]]
  /\ frc_pc = "compute_t_and_exner"
  /\ ColIdle /\ FpeIdle /\ AbortIdle /\ DrvIdle /\ IopIdle /\ IoIdle /\ SanIdle /\ RmpIdle /\ P3Idle /\ ShocIdle /\ KnlIdle /\ SubIdle /\ QdpIdle /\ GrdIdle /\ MamIdle

\* Kokkos::parallel_for("compute_t_and_exner", ..); Kokkos::fence()
ComputeTAndExner ==
  /\ frc_pc = "compute_t_and_exner"
  /\ frc_tmp' = compute_t_and_exner(frc_cfg, frc_dyn)
  /\ frc_pc' = "apply_iop_forcing"
  /\ UNCHANGED <<frc_cfg, frc_in, frc_dyn>>
  /\ FrcFrame

\* Kokkos::parallel_for("apply_iop_forcing", ..); Kokkos::fence()
ApplyIopForcing ==
  /\ frc_pc = "apply_iop_forcing"
  /\ \E slot \in Vals :
       LET sub == IF iop_dosubsidence(frc_cfg)
                    THEN advance_iop_subsidence(
                           iop_columns(frc_cfg, frc_dyn, frc_tmp, slot), slot)
                    ELSE [u |-> frc_dyn.u, v |-> frc_dyn.v,
                          T |-> frc_tmp.temperature, Q |-> frc_dyn.Q]
           frc == advance_iop_forcing(frc_cfg, sub.T, sub.Q[0])
       IN  /\ frc_dyn' = [frc_dyn EXCEPT !.u = sub.u, !.v = sub.v,
                                         !.Q = [sub.Q EXCEPT ![0] = frc.qv]]
           /\ frc_tmp' = [frc_tmp EXCEPT !.temperature = frc.T]
  /\ frc_pc' = "compute_qdp_and_vtheta_dp"
  /\ UNCHANGED <<frc_cfg, frc_in>>
  /\ FrcFrame

\* Kokkos::parallel_for("compute_qdp_and_vtheta_dp", ..) on the host: the
\* kernel is queued
LaunchComputeQdpAndVthetaDp ==
  /\ frc_pc = "compute_qdp_and_vtheta_dp"
  /\ frc_pc' = "launched"
  /\ UNCHANGED <<frc_cfg, frc_in, frc_dyn, frc_tmp>>
  /\ FrcFrame

\* the kernel compute_qdp_and_vtheta_dp on the device, before or after the
\* host has left apply_iop_forcing: Qdp = Q*dp3d, Q = Qdp/dp3d, get_R_star
\* on the first tracer, vtheta_dp = temperature*rstar*dp3d/(Rair*exner)
ComputeQdpAndVthetaDp ==
  /\ frc_pc \in {"launched", "returned_kernel_queued"}
  /\ LET Qdp == [q \in DOMAIN frc_dyn.Q |->
                   [k \in Levels |-> RMul(frc_dyn.Q[q][k], frc_dyn.dp3d[k])]]
         Q == [q \in DOMAIN frc_dyn.Q |->
                 [k \in Levels |-> RDiv(Qdp[q][k], frc_dyn.dp3d[k])]]
         rstar == get_R_star(frc_cfg, Q[0])
     IN  frc_dyn' = [frc_dyn EXCEPT
           !.Qdp = Qdp,
           !.Q = Q,
           !.vtheta_dp = [k \in Levels |->
              NDiv(NMul(frc_tmp.temperature[k], RMul(rstar[k], frc_dyn.dp3d[k])),
                   NMul(frc_cfg.Rgas, frc_tmp.exner[k]))]]
  /\ frc_pc' = IF frc_pc = "launched" THEN "kernel_done" ELSE "returned"
  /\ UNCHANGED <<frc_cfg, frc_in, frc_tmp>>
  /\ FrcFrame

\* apply_iop_forcing returns: there is no Kokkos::fence() after the last
\* kernel, so that the host leaves with the kernel done or still queued
ApplyIopForcingReturn ==
  /\ frc_pc \in {"launched", "kernel_done"}
  /\ frc_pc' = IF frc_pc = "launched" THEN "returned_kernel_queued" ELSE "returned"
  /\ UNCHANGED <<frc_cfg, frc_in, frc_dyn, frc_tmp>>
  /\ FrcFrame

ForcingNext ==
  \/ ComputeTAndExner
  \/ ApplyIopForcing
  \/ LaunchComputeQdpAndVthetaDp
  \/ ComputeQdpAndVthetaDp
  \/ ApplyIopForcingReturn

SpecForcing == ForcingInit /\ [][ForcingNext]_vars

\* C29: throughout an apply_iop_forcing call the layer thickness dp3d_dyn,
\* the surface pressure ps_dyn and the geopotential phi_int_dyn hold what
\* they held when the call started, and so do both components of the
\* horizontal wind v_dyn unless iop_dosubsidence is true.
C29_ForcingFrame ==
  /\ frc_dyn.dp3d = frc_in.dp3d
  /\ frc_dyn.ps = frc_in.ps
  /\ frc_dyn.phi_int = frc_in.phi_int
  /\ ~frc_cfg.iop_dosubsidence => frc_dyn.u = frc_in.u /\ frc_dyn.v = frc_in.v

\* a call without subsidence has returned: it forced the vapour and wrote
\* Qdp, and the wind is the one it found, which subsidence would have changed
C29_Witness ==
  /\ frc_pc = "returned"
  /\ ~frc_cfg.iop_dosubsidence
  /\ frc_dyn.Q # frc_in.Q
  /\ frc_dyn.Qdp # frc_in.Qdp
  /\ frc_dyn.u = frc_in.u
  /\ frc_in.u[0] # frc_in.u[NUM_PHYSICAL_LEV - 1]
  /\ \A k \in Levels : frc_tmp.exner[k] # NaN /\ frc_tmp.temperature[k] # NaN

(***************************************************************************)
(* The reads of the forward column_scan_mid_to_int: the provider is a      *)
(* midpoint view of NUM_LEV packs, and the scan runs as an exclusive scan  *)
(* over NUM_INTERFACE_LEV entries.  A read is the pack the provider is     *)
(* asked for and the lane of it that is used.                              *)
(***************************************************************************)
\* iteration ilev of the wide-vector forward loop: input_provider(ilev),
\* then, exclusive, input[iv-1] for iv = 1..vec_end and input[vec_end];
\* inclusive, input[0] and input[iv] for iv = 1..vec_end
scan_reads_host(ilev, LENGTH, vs) ==
  LET vec_end == IF ilev = LastPack(LENGTH, vs)
                 THEN LastPackEnd(LENGTH, vs) ELSE VECTOR_END(vs)
  IN  {[pack |-> ilev, lane |-> iv] : iv \in 0..vec_end}

\* step k of the forward parallel_scan: accumulator += input_provider(k)[0]
scan_reads_gpu(k) == {[pack |-> k, lane |-> 0]}

\* iterations of column_scan_impl<ExecSpace,true,false,NUM_INTERFACE_LEV>
scan_iterations(gpu, vs) ==
  IF gpu THEN NUM_INTERFACE_LEV ELSE NumPacks(NUM_INTERFACE_LEV, vs)

ScanReadsInit ==
  /\ col_in \in [vs : 1..MaxVectorSize, pad : {One},
                 x_m : [Levels -> PosVals],
                 prior_i : ConstCols(Interfaces, Vals)]
  /\ col_out = [path \in Paths |->
       [int |-> IntView(path, col_in.prior_i), next |-> 0, reads |-> {},
        integration |-> IF OnGpu(path) THEN Zero ELSE col_in.prior_i[0]]]
  /\ col_ran = [path \in Paths |-> "none"]
  /\ FpeIdle /\ AbortIdle /\ DrvIdle /\ IopIdle /\ IoIdle /\ SanIdle /\ RmpIdle /\ P3Idle /\ ShocIdle /\ KnlIdle /\ SubIdle /\ QdpIdle /\ GrdIdle /\ MamIdle /\ FrcIdle

\* one iteration of the forward scan column_scan_impl<ExecSpace,true,false,
\* NUM_INTERFACE_LEV>(kv, input_provider, sum, sum(0)[0]) on a path, with
\* what the provider returns past its view chosen freely.  Wide-vector
\* path: the iteration writes sum(ilev) and the running integral.  GPU
\* path: step k adds input_provider(k)[0] to the accumulator, and s0 when
\* k = 0, and writes sum(k+1) for k <= NUM_INTERFACE_LEV-2
ScanIteration(path) ==
  /\ col_ran[path] = "none"
  /\ LET i == col_out[path].next
         last == i + 1 = scan_iterations(OnGpu(path), VS(path))
         reads == IF OnGpu(path) THEN scan_reads_gpu(i)
                  ELSE scan_reads_host(i, NUM_INTERFACE_LEV, VS(path))
     IN  /\ \E oob \in Vals :
               LET input == Provide(MidView(path, col_in.x_m), i, FillPack(path, oob))
                   host == ScanFwdHostIteration(i, col_out[path].integration,
                             col_out[path].int, input, FALSE,
                             NUM_INTERFACE_LEV, VS(path))
                   s0 == col_out[path].int[0][0]
                   accumulator ==
                     LET a == RAdd(col_out[path].integration, input[0])
                     IN  IF i = 0 THEN RAdd(a, s0) ELSE a
               IN  col_out' = [col_out EXCEPT
                     ![path].next = i + 1,
                     ![path].reads = @ \cup reads,
                     ![path].integration =
                       IF OnGpu(path) THEN accumulator ELSE host.integration,
                     ![path].int =
                       IF ~OnGpu(path) THEN host.sum
                       ELSE IF i <= NUM_INTERFACE_LEV - 2
                         THEN [@ EXCEPT ![i + 1] = FillPack(path, accumulator)]
                       ELSE @]
         /\ col_ran' = [col_ran EXCEPT ![path] =
                          IF last THEN "column_scan_mid_to_int" ELSE "none"]
  /\ UNCHANGED col_in
  /\ ColFrame

ScanReadsNext == \E path \in Paths : ScanIteration(path)

SpecScanReads == ScanReadsInit /\ [][ScanReadsNext]_vars

\* C30: on both paths, every read of the forward midpoint-to-interface scan
\* is of a pack among the provider's NUM_LEV packs and of a level index
\* below NLEV.
C30_ProviderReadsMidpointsOnly ==
  \A path \in Paths : \A r \in col_out[path].reads :
    /\ r.pack < NUM_LEV(VS(path))
    /\ r.pack * VS(path) + r.lane < NUM_PHYSICAL_LEV

\* what does hold: the scan reads every level 0..NLEV-1 and, beyond them,
\* the level index NLEV only; the interface values it leaves are the initial
\* value plus the sums of the midpoint inputs, whatever that read produced
C30_OneReadPastTheMidpoints ==
  \A path \in Paths :
    /\ \A r \in col_out[path].reads :
         r.pack * VS(path) + r.lane <= NUM_PHYSICAL_LEV
    /\ col_ran[path] = "column_scan_mid_to_int" =>
         /\ \E r \in col_out[path].reads :
              r.pack * VS(path) + r.lane = NUM_PHYSICAL_LEV
         /\ \A k \in Levels :
              Lvl(col_out[path].int, VS(path), k + 1) =
                RAdd(Lvl(col_out[path].int, VS(path), k), col_in.x_m[k])

====
